---------------------------- MODULE Spec2Model ----------------------------
(***************************************************************************)
(* NanoBook: a single-symbol price-time-priority limit order book.         *)
(*                                                                         *)
(* The model follows the C++ sources:                                      *)
(*   ObjectPool<Order>   include/LOB/ObjectPool.h                          *)
(*   Order               include/LOB/Order.h                               *)
(*   LimitLevel          src/engine/LimitLevel.cpp                         *)
(*   OrderBook           src/engine/OrderBook.cpp                          *)
(*                                                                         *)
(* Pointers to Order records are pool slot indices (0 .. capacity-1, the   *)
(* index ObjectPool::deallocate recovers by pointer arithmetic); nullptr   *)
(* is -1.  A LimitLevel is a record held by value in the side map, which   *)
(* is a function from the prices present to their levels.                  *)
(***************************************************************************)
EXTENDS Integers, Sequences, FiniteSets, TLC

(***************************************************************************)
(* Bounds of the model.                                                    *)
(***************************************************************************)
\* the caller makes at most MaxCalls calls of addOrder / cancelOrder
MaxCalls == 3
\* prices submitted are 1 .. MaxPrice
MaxPrice == 2
\* quantities submitted are 1 .. MaxQty (submit's precondition: quantity > 0)
MaxQty == 2
\* the pool is constructed with a capacity of 1 .. MaxCapacity
\* (OrderBook::OrderBook passes 10000)
MaxCapacity == 3

Prices == 1 .. MaxPrice
Qtys == 1 .. MaxQty
Sides == {"Buy", "Sell"}

nullptr == -1

VARIABLES
    bids_,          \* std::map<Price, LimitLevel*, std::greater<Price>>
    asks_,          \* std::map<Price, LimitLevel*, std::less<Price>>
    orderMap_,      \* std::unordered_map<OrderId, Order*>
    pool_,          \* ObjectPool::pool_  (std::vector<Order>)
    freeIndices_,   \* ObjectPool::freeIndices_ (std::vector<size_t>, a stack)
    trades,         \* the TRADE EXECUTE lines printed by the last call
    msg,            \* the other line printed by the last call
    lastOp,         \* the last call and its arguments
    arrivals,       \* ids of the live orders, in the order addOrder accepted them
    nextId,         \* the caller's id counter: the next identifier never used so far
    calls,          \* the number of calls made
    cancelled,      \* ids whose last accepted order was removed by cancelOrder,
                    \* each with the side and price cancelOrder read from it
    ledger,         \* per order of the last call: quantity submitted, quantity traded
    snapshot,       \* the levels printBook listed, when it was the last call
    buffer_,        \* LockFreeQueue::buffer_ (std::vector<T>, size + 1 slots)
    head_,          \* LockFreeQueue::head_ (read index, written by the consumer)
    tail_,          \* LockFreeQueue::tail_ (write index, written by the producer)
    capacity_,      \* LockFreeQueue::capacity_ (size + 1)
    prod,           \* networkThread: position, loop counter i, req, locals of push
    cons,           \* engineThread: position, processedCount, req, locals of pop
    pushed,         \* the requests for which push returned true, in order
    popped,         \* the requests for which pop returned true, in order
    applied,        \* the requests applied to the book by the threads, in order
    tape,           \* every line the book printed for the requests applied
    flag,           \* SpinLock::flag of ThreadSafeOrderBook::lock_
    tpc             \* position of each thread calling ThreadSafeOrderBook

bookVars == <<bids_, asks_, orderMap_, pool_, freeIndices_, trades, msg, lastOp,
              arrivals, nextId, calls, cancelled, ledger, snapshot>>

queueVars == <<buffer_, head_, tail_, capacity_, prod, cons, pushed, popped>>

lockVars == <<flag, tpc>>

vars == <<bookVars, queueVars, lockVars, applied, tape>>

(***************************************************************************)
(* Order (Order.h).  A value-initialised Order has zero fields and null    *)
(* links; Order(id, price, qty, side) leaves next and prev null.           *)
(***************************************************************************)
DefaultOrder ==
    [id |-> 0, price |-> 0, quantity |-> 0, side |-> "Buy",
     next |-> nullptr, prev |-> nullptr]

\* a constructor that stores one unit less than the quantity it is given
Order_oneLess(id, price, qty, side) ==
    [id |-> id, price |-> price, quantity |-> qty - 1, side |-> side,
     next |-> nullptr, prev |-> nullptr]

Order(id, price, qty, side) ==
    [id |-> id, price |-> price, quantity |-> qty, side |-> side,
     next |-> nullptr, prev |-> nullptr]

(***************************************************************************)
(* The book as one value: the five members of OrderBook.                   *)
(***************************************************************************)
Book(b, a, m, p, f) ==
    [bids |-> b, asks |-> a, orderMap |-> m, pool |-> p, free |-> f]

CurrentBook == Book(bids_, asks_, orderMap_, pool_, freeIndices_)

Min(x, y) == IF x <= y THEN x ELSE y

\* std::map::erase(key) and std::unordered_map::erase(key)
MapErase(f, k) == [x \in (DOMAIN f) \ {k} |-> f[x]]

\* std::map::operator[] assignment / unordered_map::operator[] assignment
MapPut(f, k, v) == [x \in (DOMAIN f) \cup {k} |-> IF x = k THEN v ELSE f[x]]

EmptyMap == [x \in {} |-> 0]

(***************************************************************************)
(* ObjectPool                                                              *)
(***************************************************************************)
\* ObjectPool(size): pool_.resize(size); freeIndices_ = 0, 1, ..., size-1
PoolInit(size) == [s \in 0 .. (size - 1) |-> DefaultOrder]

FreeInit(size) == [i \in 1 .. size |-> i - 1]

\* pool_.size()
Capacity(pool) == Cardinality(DOMAIN pool)

\* a pool that hands out the index at the front of freeIndices_
allocate_front(bk, id, price, qty, side) ==
    IF bk.free = <<>>
    THEN [book |-> bk, obj |-> nullptr]
    ELSE [book |-> [bk EXCEPT !.free = Tail(bk.free),
                              !.pool[Head(bk.free)] = Order(id, price, qty, side)],
          obj |-> Head(bk.free)]

\* allocate: nullptr when the free stack is empty; otherwise pop the back
\* index and assign a fresh T(args...) into that slot.
allocate(bk, id, price, qty, side) ==
    IF bk.free = <<>>
    THEN [book |-> bk, obj |-> nullptr]
    ELSE [book |-> [bk EXCEPT !.free = SubSeq(bk.free, 1, Len(bk.free) - 1),
                              !.pool[bk.free[Len(bk.free)]] = Order(id, price, qty, side)],
          obj |-> bk.free[Len(bk.free)]]

\* a pool that pushes the index of a released slot twice
deallocate_twice(bk, obj) == [bk EXCEPT !.free = Append(Append(bk.free, obj), obj)]

\* a pool that forgets the slots it is handed back
deallocate_leak(bk, obj) == bk

\* deallocate: push the slot's index; the slot's contents are left as they are.
deallocate(bk, obj) == [bk EXCEPT !.free = Append(bk.free, obj)]

(***************************************************************************)
(* LimitLevel.  The links of its list live in the Order records, so append *)
(* and remove return the level and the pool.                               *)
(***************************************************************************)
LimitLevel(p) == [price_ |-> p, totalVolume_ |-> 0, head_ |-> nullptr, tail_ |-> nullptr]

getPrice(lvl) == lvl.price_

getVolume(lvl) == lvl.totalVolume_

\* a level that offers its newest order for matching
getHead_newest(lvl) == lvl.tail_

getHead(lvl) == lvl.head_

isEmpty(lvl) == lvl.head_ = nullptr

\* an append that leaves the cached volume as it was
append_noVolume(lvl, pool, order) ==
    IF lvl.head_ = nullptr
    THEN [level |-> [lvl EXCEPT !.head_ = order, !.tail_ = order],
          pool |-> [pool EXCEPT ![order].next = nullptr, ![order].prev = nullptr]]
    ELSE [level |-> [lvl EXCEPT !.tail_ = order],
          pool |-> [pool EXCEPT ![lvl.tail_].next = order,
                                ![order].prev = lvl.tail_,
                                ![order].next = nullptr]]

\* an append that links the order in front of the head
append_atHead(lvl, pool, order) ==
    IF lvl.head_ = nullptr
    THEN [level |-> [lvl EXCEPT !.head_ = order, !.tail_ = order,
                                !.totalVolume_ = @ + pool[order].quantity],
          pool |-> [pool EXCEPT ![order].next = nullptr, ![order].prev = nullptr]]
    ELSE [level |-> [lvl EXCEPT !.head_ = order,
                                !.totalVolume_ = @ + pool[order].quantity],
          pool |-> [pool EXCEPT ![lvl.head_].prev = order,
                                ![order].next = lvl.head_,
                                ![order].prev = nullptr]]

\* LimitLevel::append(order): link at the tail (the head too when the list
\* is empty), then add the order's quantity to the cached volume.
append(lvl, pool, order) ==
    IF lvl.head_ = nullptr
    THEN [level |-> [lvl EXCEPT !.head_ = order, !.tail_ = order,
                                !.totalVolume_ = @ + pool[order].quantity],
          pool |-> [pool EXCEPT ![order].next = nullptr, ![order].prev = nullptr]]
    ELSE [level |-> [lvl EXCEPT !.tail_ = order,
                                !.totalVolume_ = @ + pool[order].quantity],
          pool |-> [pool EXCEPT ![lvl.tail_].next = order,
                                ![order].prev = lvl.tail_,
                                ![order].next = nullptr]]

\* a remove that leaves the previous order's next link as it was
unlinkPrev_skip(pool, order) == pool

\* remove, step 1: order->prev->next = order->next, when there is a prev
unlinkPrev(pool, order) ==
    IF pool[order].prev # nullptr
    THEN [pool EXCEPT ![pool[order].prev].next = pool[order].next]
    ELSE pool

\* remove, step 2: order->next->prev = order->prev, when there is a next
unlinkNext(pool, order) ==
    IF pool[order].next # nullptr
    THEN [pool EXCEPT ![pool[order].next].prev = pool[order].prev]
    ELSE pool

\* a remove that leaves the removed order's own links as they were
clearLinks_skip(pool, order) == pool

\* remove, step 3: order->next = order->prev = nullptr
clearLinks(pool, order) ==
    [pool EXCEPT ![order].next = nullptr, ![order].prev = nullptr]

\* LimitLevel::remove(order): the head moves to order->next when the order
\* has no prev, the tail to order->prev when it has no next; the order's
\* current quantity is subtracted from the cached volume.
remove(lvl, pool, order) ==
    [level |-> [lvl EXCEPT
                   !.head_ = IF pool[order].prev # nullptr THEN @ ELSE pool[order].next,
                   !.tail_ = IF pool[order].next # nullptr THEN @ ELSE pool[order].prev,
                   !.totalVolume_ = @ - pool[order].quantity],
     pool |-> clearLinks(unlinkNext(unlinkPrev(pool, order), order), order)]

(***************************************************************************)
(* OrderBook                                                               *)
(***************************************************************************)
\* a bid map ordered like the ask map
BidsBegin_lowest(b) == CHOOSE p \in DOMAIN b : \A q \in DOMAIN b : p <= q

\* bids_.begin(): the first key under std::greater<Price>
BidsBegin(b) == CHOOSE p \in DOMAIN b : \A q \in DOMAIN b : q <= p

\* asks_.begin(): the first key under std::less<Price>
AsksBegin(a) == CHOOSE p \in DOMAIN a : \A q \in DOMAIN a : p <= q

\* getLimitLevel(price, side): create the level when the side map has none
\* at that price.  Returns the book; the level is then bids[price]/asks[price].
getLimitLevel(bk, price, side) ==
    IF side = "Buy"
    THEN IF price \notin DOMAIN bk.bids
         THEN [bk EXCEPT !.bids = MapPut(bk.bids, price, LimitLevel(price))]
         ELSE bk
    ELSE IF price \notin DOMAIN bk.asks
         THEN [bk EXCEPT !.asks = MapPut(bk.asks, price, LimitLevel(price))]
         ELSE bk

\* the level getLimitLevel returned
levelAt(bk, price, side) == IF side = "Buy" THEN bk.bids[price] ELSE bk.asks[price]

\* store what append / remove did to the level at (price, side)
setLevel(bk, price, side, r) ==
    IF side = "Buy"
    THEN [bk EXCEPT !.bids[price] = r.level, !.pool = r.pool]
    ELSE [bk EXCEPT !.asks[price] = r.level, !.pool = r.pool]

\* level->append(order) on the level at (price, side)
appendTo(bk, price, side, order) ==
    setLevel(bk, price, side, append(levelAt(bk, price, side), bk.pool, order))

\* level->remove(order) on the level at (price, side)
removeFrom(bk, price, side, order) ==
    setLevel(bk, price, side, remove(levelAt(bk, price, side), bk.pool, order))

\* orderMap_[id] = order
indexPut(bk, id, order) == [bk EXCEPT !.orderMap = MapPut(bk.orderMap, id, order)]

\* an index that keeps the entries of the orders that left the book
indexErase_skip(bk, id) == bk

\* orderMap_.erase(id)
indexErase(bk, id) == [bk EXCEPT !.orderMap = MapErase(bk.orderMap, id)]

\* match(): if (bestBidLevel->isEmpty()) { delete; bids_.erase(bids_.begin()); }
eraseBestBidIfEmpty(bk, bp) ==
    IF isEmpty(bk.bids[bp])
    THEN [bk EXCEPT !.bids = MapErase(bk.bids, BidsBegin(bk.bids))]
    ELSE bk

\* match(): if (bestAskLevel->isEmpty()) { delete; asks_.erase(asks_.begin()); }
eraseBestAskIfEmpty(bk, ap) ==
    IF isEmpty(bk.asks[ap])
    THEN [bk EXCEPT !.asks = MapErase(bk.asks, AsksBegin(bk.asks))]
    ELSE bk

\* match(): the bid order's quantity reached zero
cleanupBid(bk, bp, bidOrder) ==
    IF bk.pool[bidOrder].quantity = 0
    THEN eraseBestBidIfEmpty(
             deallocate(
                 indexErase(removeFrom(bk, bp, "Buy", bidOrder), bk.pool[bidOrder].id),
                 bidOrder),
             bp)
    ELSE bk

\* match(): the ask order's quantity reached zero
cleanupAsk(bk, ap, askOrder) ==
    IF bk.pool[askOrder].quantity = 0
    THEN eraseBestAskIfEmpty(
             deallocate(
                 indexErase(removeFrom(bk, ap, "Sell", askOrder), bk.pool[askOrder].id),
                 askOrder),
             ap)
    ELSE bk

\* a loop that also stops when the best prices are equal
spreadOpen_orEqual(bestBidLevel, bestAskLevel) ==
    getPrice(bestBidLevel) <= getPrice(bestAskLevel)

\* a loop that never stops on the prices
spreadOpen_never(bestBidLevel, bestAskLevel) == FALSE

\* the loop's second exit: best bid price below best ask price
spreadOpen(bestBidLevel, bestAskLevel) == getPrice(bestBidLevel) < getPrice(bestAskLevel)

\* the price printed in the TRADE EXECUTE line
tradePrice(bestBidLevel, bestAskLevel) == getPrice(bestAskLevel)

\* the TRADE EXECUTE line of one iteration; before is the book as the
\* iteration found it
tradeOf(bk, bestBidLevel, bestAskLevel, bidOrder, askOrder) ==
    [quantity |-> Min(bk.pool[bidOrder].quantity, bk.pool[askOrder].quantity),
     price |-> tradePrice(bestBidLevel, bestAskLevel),
     bid |-> bk.pool[bidOrder].id,
     ask |-> bk.pool[askOrder].id,
     before |-> bk]

\* a fill that gives the ask order the quantity it takes from the bid order
fill_askGrows(bk, bidOrder, askOrder, quantity) ==
    [bk EXCEPT !.pool[bidOrder].quantity = @ - quantity,
               !.pool[askOrder].quantity = @ + quantity]

\* a fill that takes the quantity from the bid order only
fill_bidOnly(bk, bidOrder, askOrder, quantity) ==
    [bk EXCEPT !.pool[bidOrder].quantity = @ - quantity]

\* bidOrder->quantity -= quantity; askOrder->quantity -= quantity
fill(bk, bidOrder, askOrder, quantity) ==
    [bk EXCEPT !.pool[bidOrder].quantity = @ - quantity,
               !.pool[askOrder].quantity = @ - quantity]

\* one iteration of the loop in match(), past its two exits
matchStep(bk, bp, ap, bidOrder, askOrder) ==
    cleanupAsk(
        cleanupBid(
            fill(bk, bidOrder, askOrder,
                 Min(bk.pool[bidOrder].quantity, bk.pool[askOrder].quantity)),
            bp, bidOrder),
        ap, askOrder)

\* match(): the cross loop.  ts accumulates the trades printed.
RECURSIVE match(_, _)
match(bk, ts) ==
    IF DOMAIN bk.bids = {} \/ DOMAIN bk.asks = {}
    THEN [book |-> bk, trades |-> ts]
    ELSE IF spreadOpen(bk.bids[BidsBegin(bk.bids)], bk.asks[AsksBegin(bk.asks)])
         THEN [book |-> bk, trades |-> ts]
         ELSE match(matchStep(bk, BidsBegin(bk.bids), AsksBegin(bk.asks),
                              getHead(bk.bids[BidsBegin(bk.bids)]),
                              getHead(bk.asks[AsksBegin(bk.asks)])),
                    Append(ts, tradeOf(bk, bk.bids[BidsBegin(bk.bids)],
                                       bk.asks[AsksBegin(bk.asks)],
                                       getHead(bk.bids[BidsBegin(bk.bids)]),
                                       getHead(bk.asks[AsksBegin(bk.asks)]))))

\* an addOrder without the duplicate test
isDuplicate_never(bk, id) == FALSE

\* addOrder's first test: the identifier is already in the index
isDuplicate(bk, id) == id \in DOMAIN bk.orderMap

\* addOrder, lines 22-28: index the order, append it to its level, match
accept(bk, order, id, price, side) ==
    match(appendTo(getLimitLevel(indexPut(bk, id, order), price, side),
                   price, side, order),
          <<>>)

\* what addOrder leaves: the book, the trades printed, whether the order
\* got past both early returns
addResult(m, accepted) == [book |-> m.book, trades |-> m.trades, accepted |-> accepted]

\* an addOrder that looks its level up before it asks the pool for a slot
addAllocated_levelFirst(bk, a, id, price, side) ==
    IF a.obj = nullptr
    THEN [book |-> getLimitLevel(bk, price, side), trades |-> <<>>, accepted |-> FALSE]
    ELSE addResult(accept(a.book, a.obj, id, price, side), TRUE)

\* addOrder, from the allocation on
addAllocated(bk, a, id, price, side) ==
    IF a.obj = nullptr
    THEN [book |-> bk, trades |-> <<>>, accepted |-> FALSE]
    ELSE addResult(accept(a.book, a.obj, id, price, side), TRUE)

\* addOrder(id, price, qty, side)
addOrder(bk, id, price, qty, side) ==
    IF isDuplicate(bk, id)
    THEN [book |-> bk, trades |-> <<>>, accepted |-> FALSE]
    ELSE addAllocated(bk, allocate(bk, id, price, qty, side), id, price, side)

\* a cancelOrder that leaves the emptied level in its side book
eraseLevelIfEmpty_never(bk, level, order) == bk

\* cancelOrder, lines 125-133: order->side and order->price are read from
\* the released slot, whose contents deallocate left in place
eraseLevelIfEmpty(bk, level, order) ==
    IF isEmpty(level)
    THEN IF bk.pool[order].side = "Buy"
         THEN [bk EXCEPT !.bids = MapErase(bk.bids, bk.pool[order].price)]
         ELSE [bk EXCEPT !.asks = MapErase(bk.asks, bk.pool[order].price)]
    ELSE bk

\* cancelOrder past the lookup, with the released book in hand
cancelTail(bk, price, side, order) ==
    eraseLevelIfEmpty(bk, levelAt(bk, price, side), order)

\* a cancelOrder that erases the index entry and leaves the order linked
cancelFound_indexOnly(bk, id, order) == indexErase(bk, id)

\* cancelOrder, lines 120-133
cancelFound(bk, id, order) ==
    cancelTail(
        deallocate(
            indexErase(
                removeFrom(getLimitLevel(bk, bk.pool[order].price, bk.pool[order].side),
                           bk.pool[order].price, bk.pool[order].side, order),
                id),
            order),
        bk.pool[order].price, bk.pool[order].side, order)

\* a cancelOrder that looks for a level before it looks in the index
cancelOrder_levelFirst(bk, id) ==
    IF id \notin DOMAIN bk.orderMap
    THEN [book |-> getLimitLevel(bk, 1, "Buy"), msg |-> "not found"]
    ELSE [book |-> cancelFound(bk, id, bk.orderMap[id]), msg |-> "Cancelled"]

\* cancelOrder(id)
cancelOrder(bk, id) ==
    IF id \notin DOMAIN bk.orderMap
    THEN [book |-> bk, msg |-> "not found"]
    ELSE [book |-> cancelFound(bk, id, bk.orderMap[id]), msg |-> "Cancelled"]

\* the keys of asks_ from begin() to end(): ascending under std::less
RECURSIVE AsksOrder(_)
AsksOrder(a) ==
    IF DOMAIN a = {} THEN <<>>
    ELSE <<AsksBegin(a)>> \o AsksOrder(MapErase(a, AsksBegin(a)))

\* the keys of bids_ from begin() to end(): descending under std::greater
RECURSIVE BidsOrder(_)
BidsOrder(b) ==
    IF DOMAIN b = {} THEN <<>>
    ELSE <<BidsBegin(b)>> \o BidsOrder(MapErase(b, BidsBegin(b)))

\* from rbegin() to rend()
Reverse(s) == [i \in 1 .. Len(s) |-> s[Len(s) + 1 - i]]

\* the " Price: p | Vol: v" lines for the keys ks of side map m
PriceVolLines(m, ks) == [i \in 1 .. Len(ks) |-> [price |-> ks[i], vol |-> getVolume(m[ks[i]])]]

\* printBook(): the asks from rbegin() to rend(), then the bids from begin()
\* to end()
printBook(bk) ==
    [asks |-> PriceVolLines(bk.asks, Reverse(AsksOrder(bk.asks))),
     bids |-> PriceVolLines(bk.bids, BidsOrder(bk.bids))]

(***************************************************************************)
(* The state machine: a caller issuing addOrder, cancelOrder and printBook *)
(* calls.                                                                  *)
(***************************************************************************)
\* the ids of arr that are in the index m, in arr's order
RECURSIVE Live(_, _)
Live(arr, m) ==
    IF arr = <<>> THEN <<>>
    ELSE IF Head(arr) \in DOMAIN m
         THEN <<Head(arr)>> \o Live(Tail(arr), m)
         ELSE Live(Tail(arr), m)

\* the entries of f whose key is in S
Keep(f, S) == [x \in (DOMAIN f) \cap S |-> f[x]]

\* the ledger entry of an order as addOrder accepts it
Entry(qty) == [original |-> qty, filled |-> 0]

\* add the quantity of each TRADE EXECUTE line to both orders it names
RECURSIVE Credit(_, _)
Credit(led, ts) ==
    IF ts = <<>> THEN led
    ELSE Credit([x \in DOMAIN led |->
                    IF x \in {Head(ts).bid, Head(ts).ask}
                    THEN [led[x] EXCEPT !.filled = @ + Head(ts).quantity]
                    ELSE led[x]],
                Tail(ts))

NoOp == [op |-> "none", id |-> 0, price |-> 0, qty |-> 0, side |-> "Buy",
         known |-> FALSE, accepted |-> FALSE]

\* what printBook lists for a book without levels, and what snapshot holds
\* when the last call was not printBook
NoSnapshot == [asks |-> <<>>, bids |-> <<>>]

\* OrderBook::OrderBook(): empty maps and a pool of size slots
NewBook ==
    /\ bids_ = EmptyMap
    /\ asks_ = EmptyMap
    /\ orderMap_ = EmptyMap
    /\ \E size \in 1 .. MaxCapacity :
          /\ pool_ = PoolInit(size)
          /\ freeIndices_ = FreeInit(size)
    /\ trades = <<>>
    /\ msg = ""
    /\ lastOp = NoOp
    /\ arrivals = <<>>
    /\ nextId = 1
    /\ calls = 0
    /\ cancelled = EmptyMap
    /\ ledger = EmptyMap
    /\ snapshot = NoSnapshot

\* a program with no LockFreeQueue, no SpinLock and no threads besides main
NoThreads ==
    /\ buffer_ = <<>>
    /\ head_ = 0
    /\ tail_ = 0
    /\ capacity_ = 0
    /\ prod = [pc |-> "none"]
    /\ cons = [pc |-> "none"]
    /\ pushed = <<>>
    /\ popped = <<>>
    /\ applied = <<>>
    /\ tape = <<>>
    /\ flag = FALSE
    /\ tpc = <<>>

Init == NewBook /\ NoThreads

\* the book a call leaves
SetBook(bk) ==
    /\ bids_' = bk.bids
    /\ asks_' = bk.asks
    /\ orderMap_' = bk.orderMap
    /\ pool_' = bk.pool
    /\ freeIndices_' = bk.free

\* arrivals lists the orders that were live at some moment of the last
\* call, in the order they were accepted; ledger has an entry for each of them
AddReturns(r, id, price, qty, side) ==
    /\ SetBook(r.book)
    /\ trades' = r.trades
    /\ msg' = ""
    /\ lastOp' = [op |-> "addOrder", id |-> id, price |-> price, qty |-> qty,
                  side |-> side, known |-> id \in DOMAIN orderMap_,
                  accepted |-> r.accepted]
    /\ arrivals' = IF r.accepted
                   THEN Append(Live(arrivals, orderMap_), id)
                   ELSE Live(arrivals, orderMap_)
    /\ nextId' = IF id = nextId THEN nextId + 1 ELSE nextId
    /\ calls' = calls + 1
    /\ snapshot' = NoSnapshot
    /\ cancelled' = IF r.accepted THEN MapErase(cancelled, id) ELSE cancelled
    /\ ledger' = IF r.accepted
                 THEN Credit(MapPut(Keep(ledger, DOMAIN orderMap_), id, Entry(qty)),
                             r.trades)
                 ELSE Keep(ledger, DOMAIN orderMap_)

AddOrder(id, price, qty, side) ==
    /\ calls < MaxCalls
    /\ AddReturns(addOrder(CurrentBook, id, price, qty, side), id, price, qty, side)
    /\ UNCHANGED <<queueVars, lockVars, applied, tape>>

CancelReturns(r, id) ==
    /\ SetBook(r.book)
    /\ trades' = <<>>
    /\ msg' = r.msg
    /\ lastOp' = [op |-> "cancelOrder", id |-> id, price |-> 0, qty |-> 0,
                  side |-> "Buy", known |-> id \in DOMAIN orderMap_,
                  accepted |-> FALSE]
    /\ arrivals' = Live(arrivals, orderMap_)
    /\ nextId' = nextId
    /\ calls' = calls + 1
    /\ snapshot' = NoSnapshot
    /\ cancelled' = IF r.msg = "Cancelled"
                    THEN MapPut(cancelled, id, [side |-> pool_[orderMap_[id]].side,
                                                price |-> pool_[orderMap_[id]].price])
                    ELSE cancelled
    /\ ledger' = Keep(ledger, DOMAIN orderMap_)

CancelOrder(id) ==
    /\ calls < MaxCalls
    /\ CancelReturns(cancelOrder(CurrentBook, id), id)
    /\ UNCHANGED <<queueVars, lockVars, applied, tape>>

\* printBook leaves the book as it is
PrintReturns(lines) ==
    /\ UNCHANGED <<bids_, asks_, orderMap_, pool_, freeIndices_, nextId, cancelled>>
    /\ trades' = <<>>
    /\ msg' = ""
    /\ lastOp' = [NoOp EXCEPT !.op = "printBook"]
    /\ arrivals' = Live(arrivals, orderMap_)
    /\ calls' = calls + 1
    /\ snapshot' = lines
    /\ ledger' = Keep(ledger, DOMAIN orderMap_)

PrintBook ==
    /\ calls < MaxCalls
    /\ PrintReturns(printBook(CurrentBook))
    /\ UNCHANGED <<queueVars, lockVars, applied, tape>>

\* The caller numbers its orders 1, 2, 3, ... (main.cpp, simulation.cpp); a
\* call names either an identifier used before or the next unused one.
Next ==
    \/ \E id \in 1 .. nextId, price \in Prices, qty \in Qtys, side \in Sides :
          AddOrder(id, price, qty, side)
    \/ \E id \in 1 .. nextId : CancelOrder(id)
    \/ PrintBook

Spec == Init /\ [][Next]_vars

(***************************************************************************)
(* Reading the book: the orders of a level in list order, the levels of a  *)
(* book, positions in the arrival order.                                   *)
(***************************************************************************)
Range(seq) == {seq[i] : i \in DOMAIN seq}

\* the slots met following next from s, at most n of them
RECURSIVE Walk(_, _, _)
Walk(pool, s, n) ==
    IF s = nullptr \/ n = 0 THEN <<>>
    ELSE <<s>> \o Walk(pool, pool[s].next, n - 1)

\* the slots linked in a level, head first
Queue(lvl, pool) == Walk(pool, lvl.head_, Capacity(pool))

\* the sum of the quantities of the slots of q
RECURSIVE SumQuantity(_, _)
SumQuantity(pool, q) ==
    IF q = <<>> THEN 0
    ELSE pool[Head(q)].quantity + SumQuantity(pool, Tail(q))

\* the levels of a book, as <<side, price>>
LevelsOf(bk) ==
    {<<"Buy", p>> : p \in DOMAIN bk.bids} \cup {<<"Sell", p>> : p \in DOMAIN bk.asks}

LevelRec(bk, sp) == IF sp[1] = "Buy" THEN bk.bids[sp[2]] ELSE bk.asks[sp[2]]

QueueAt(bk, sp) == Queue(LevelRec(bk, sp), bk.pool)

\* the places <<level, position>> where slot s is linked
Occurrences(bk, s) ==
    {x \in UNION {{<<sp, i>> : i \in DOMAIN QueueAt(bk, sp)} : sp \in LevelsOf(bk)} :
        QueueAt(bk, x[1])[x[2]] = s}

\* the slots reachable through the side books
LinkedSlots(bk) == UNION {Range(QueueAt(bk, sp)) : sp \in LevelsOf(bk)}

\* the record of the live order id in book bk
OrderOf(bk, id) == bk.pool[bk.orderMap[id]]

\* e and f are live in bk on the same side at the same price
SameQueue(bk, e, f) ==
    /\ OrderOf(bk, e).price = OrderOf(bk, f).price
    /\ OrderOf(bk, e).side = OrderOf(bk, f).side

\* x was accepted before y (both live at some moment of the last call)
Pos(x) == CHOOSE i \in DOMAIN arrivals : arrivals[i] = x

ArrivedBefore(x, y) == Pos(x) < Pos(y)

(***************************************************************************)
(* C1: after every call, whenever both side books are non-empty, every bid *)
(* level's price is strictly below every ask level's price, so the best    *)
(* bid is below the best ask: the book is never left crossed.              *)
(***************************************************************************)
C1_NeverCrossed ==
    \A b \in DOMAIN bids_, a \in DOMAIN asks_ :
        /\ b < a
        /\ getPrice(bids_[b]) < getPrice(asks_[a])

\* an addOrder that traded and left orders on both sides
C1_Witness ==
    /\ lastOp.op = "addOrder"
    /\ trades # <<>>
    /\ DOMAIN bids_ # {}
    /\ DOMAIN asks_ # {}

(***************************************************************************)
(* C2: time priority.  (a) An order is filled only when no order accepted  *)
(* before it is live at its price and side.  (b) An order filled in part   *)
(* keeps its place: it is still the head of its level when the call        *)
(* returns, and every level's list is in arrival order.  (c) The trades of *)
(* one addOrder name the passive orders of a level in arrival order.       *)
(***************************************************************************)
C2_FilledIsOldest ==
    \A k \in DOMAIN trades :
        \A f \in {trades[k].bid, trades[k].ask} :
            \A e \in DOMAIN trades[k].before.orderMap :
                (e # f /\ SameQueue(trades[k].before, e, f)) => ArrivedBefore(f, e)

C2_PartialKeepsHead ==
    \A k \in DOMAIN trades :
        \A f \in {trades[k].bid, trades[k].ask} :
            f \in DOMAIN orderMap_ =>
                LevelRec(CurrentBook,
                         <<pool_[orderMap_[f]].side, pool_[orderMap_[f]].price>>).head_
                    = orderMap_[f]

C2_QueuesInArrivalOrder ==
    \A sp \in LevelsOf(CurrentBook) :
        \A i, j \in DOMAIN QueueAt(CurrentBook, sp) :
            i < j => ArrivedBefore(pool_[QueueAt(CurrentBook, sp)[i]].id,
                                   pool_[QueueAt(CurrentBook, sp)[j]].id)

C2_PassiveInArrivalOrder ==
    \A i, j \in DOMAIN trades :
        i < j =>
            /\ (trades[i].bid # lastOp.id /\ trades[j].bid # lastOp.id
                /\ trades[i].bid # trades[j].bid
                /\ SameQueue(trades[i].before, trades[i].bid, trades[j].bid))
               => ArrivedBefore(trades[i].bid, trades[j].bid)
            /\ (trades[i].ask # lastOp.id /\ trades[j].ask # lastOp.id
                /\ trades[i].ask # trades[j].ask
                /\ SameQueue(trades[i].before, trades[i].ask, trades[j].ask))
               => ArrivedBefore(trades[i].ask, trades[j].ask)

C2_TimePriority ==
    /\ C2_FilledIsOldest
    /\ C2_PartialKeepsHead
    /\ C2_QueuesInArrivalOrder
    /\ C2_PassiveInArrivalOrder

\* buys 1 and 2 rest at one price; a sell fills 1 whole, then 2 in part
C2_Witness ==
    /\ Len(trades) = 2
    /\ trades[1].ask = lastOp.id
    /\ trades[2].ask = lastOp.id
    /\ trades[1].bid = 1
    /\ trades[2].bid = 2
    /\ SameQueue(trades[1].before, 1, 2)
    /\ 1 \notin DOMAIN orderMap_
    /\ 2 \in DOMAIN orderMap_

(***************************************************************************)
(* C3: price priority.  Every trade is between the head of the highest     *)
(* priced bid level and the head of the lowest priced ask level of the     *)
(* book as it was at that moment, and no live order on either side had a   *)
(* strictly better price than the order filled on that side.               *)
(***************************************************************************)
C3_PricePriority ==
    \A k \in DOMAIN trades :
        /\ \E bp \in DOMAIN trades[k].before.bids :
              /\ \A p \in DOMAIN trades[k].before.bids : p <= bp
              /\ trades[k].before.pool[trades[k].before.bids[bp].head_].id = trades[k].bid
        /\ \E ap \in DOMAIN trades[k].before.asks :
              /\ \A p \in DOMAIN trades[k].before.asks : ap <= p
              /\ trades[k].before.pool[trades[k].before.asks[ap].head_].id = trades[k].ask
        /\ \A e \in DOMAIN trades[k].before.orderMap :
              /\ OrderOf(trades[k].before, e).side = "Buy"
                 => OrderOf(trades[k].before, e).price
                        <= OrderOf(trades[k].before, trades[k].bid).price
              /\ OrderOf(trades[k].before, e).side = "Sell"
                 => OrderOf(trades[k].before, e).price
                        >= OrderOf(trades[k].before, trades[k].ask).price

\* a trade made while a worse-priced level rested on the same side
C3_Witness ==
    \E k \in DOMAIN trades :
        \/ Cardinality(DOMAIN trades[k].before.bids) >= 2
        \/ Cardinality(DOMAIN trades[k].before.asks) >= 2

(***************************************************************************)
(* C4: every trade executes at the price of the passive order, the one     *)
(* that rested in the book before the addOrder call that caused the trade. *)
(***************************************************************************)
C4_PassivePrice ==
    \A k \in DOMAIN trades :
        \A f \in {trades[k].bid, trades[k].ask} :
            f # lastOp.id => trades[k].price = OrderOf(trades[k].before, f).price

(***************************************************************************)
(* C5: every trade's price is at most the limit price of its buy order and *)
(* at least the limit price of its sell order.                             *)
(***************************************************************************)
C5_LimitRespected ==
    \A k \in DOMAIN trades :
        /\ trades[k].price <= OrderOf(trades[k].before, trades[k].bid).price
        /\ trades[k].price >= OrderOf(trades[k].before, trades[k].ask).price

\* a trade between a buy and a sell whose limits differ
C5_Witness ==
    \E k \in DOMAIN trades :
        OrderOf(trades[k].before, trades[k].bid).price
            > OrderOf(trades[k].before, trades[k].ask).price

(***************************************************************************)
(* C6: after every call, each level's cached volume is the sum of the      *)
(* remaining quantities of the orders linked in it.                        *)
(***************************************************************************)
C6_VolumeIsSumOfRemaining ==
    \A sp \in LevelsOf(CurrentBook) :
        getVolume(LevelRec(CurrentBook, sp))
            = SumQuantity(pool_, QueueAt(CurrentBook, sp))

(***************************************************************************)
(* C7: after every call the index mirrors the book.  Each id of the index  *)
(* maps to a record that carries that id and is linked exactly once, in    *)
(* the level of its own side and price; each linked record's id is in the  *)
(* index and maps back to that record.                                     *)
(***************************************************************************)
C7_IndexMirrorsBook ==
    /\ \A id \in DOMAIN orderMap_ :
          /\ orderMap_[id] \in DOMAIN pool_
          /\ pool_[orderMap_[id]].id = id
          /\ Cardinality(Occurrences(CurrentBook, orderMap_[id])) = 1
          /\ \A x \in Occurrences(CurrentBook, orderMap_[id]) :
                x[1] = <<pool_[orderMap_[id]].side, pool_[orderMap_[id]].price>>
    /\ \A s \in LinkedSlots(CurrentBook) :
          /\ pool_[s].id \in DOMAIN orderMap_
          /\ orderMap_[pool_[s].id] = s

\* an addOrder whose order was filled whole and left the index, with
\* another order still indexed
C7_Witness ==
    /\ lastOp.op = "addOrder"
    /\ lastOp.accepted
    /\ trades # <<>>
    /\ lastOp.id \notin DOMAIN orderMap_
    /\ DOMAIN orderMap_ # {}

(***************************************************************************)
(* C8: after every call every level of either side book holds at least    *)
(* one order, has a non-zero cached volume and sits under its own price;   *)
(* a side book has a level at a price exactly when a live order of that    *)
(* side has that price.                                                    *)
(***************************************************************************)
C8_LevelsNonEmpty ==
    /\ \A sp \in LevelsOf(CurrentBook) :
          /\ ~isEmpty(LevelRec(CurrentBook, sp))
          /\ QueueAt(CurrentBook, sp) # <<>>
          /\ getVolume(LevelRec(CurrentBook, sp)) # 0
          /\ getPrice(LevelRec(CurrentBook, sp)) = sp[2]
    /\ LevelsOf(CurrentBook)
          = {<<pool_[orderMap_[id]].side, pool_[orderMap_[id]].price>> :
                id \in DOMAIN orderMap_}

\* a cancel removed the last order of a level while another level remains:
\* the slot released last still shows the cancelled order's side and price
C8_Witness ==
    /\ lastOp.op = "cancelOrder"
    /\ msg = "Cancelled"
    /\ LevelsOf(CurrentBook) # {}
    /\ pool_[freeIndices_[Len(freeIndices_)]].id = lastOp.id
    /\ <<pool_[freeIndices_[Len(freeIndices_)]].side,
          pool_[freeIndices_[Len(freeIndices_)]].price>> \notin LevelsOf(CurrentBook)

(***************************************************************************)
(* C9: pool conservation.  The slots reachable through the side books and  *)
(* the indices of the free stack are disjoint, together they are exactly   *)
(* 0 .. capacity-1, and no index is twice in the free stack.               *)
(***************************************************************************)
C9_PoolConservation ==
    /\ LinkedSlots(CurrentBook) \cap Range(freeIndices_) = {}
    /\ LinkedSlots(CurrentBook) \cup Range(freeIndices_) = 0 .. (Capacity(pool_) - 1)
    /\ \A i, j \in DOMAIN freeIndices_ : freeIndices_[i] = freeIndices_[j] => i = j
    /\ Cardinality(LinkedSlots(CurrentBook)) + Len(freeIndices_) = Capacity(pool_)

\* a slot was released below a slot still in use
C9_Witness ==
    /\ LinkedSlots(CurrentBook) # {}
    /\ freeIndices_ # <<>>
    /\ \E s \in LinkedSlots(CurrentBook) : s < freeIndices_[Len(freeIndices_)]

(***************************************************************************)
(* C10: an addOrder whose identifier is in the index changes nothing: the  *)
(* side books, the index, the pool and the free stack are as before and no *)
(* trade is printed, whatever price, quantity and side it carries.         *)
(***************************************************************************)
C10_DuplicateStep ==
    (lastOp'.op = "addOrder" /\ lastOp'.id \in DOMAIN orderMap_)
        => /\ bids_' = bids_
           /\ asks_' = asks_
           /\ orderMap_' = orderMap_
           /\ pool_' = pool_
           /\ freeIndices_' = freeIndices_
           /\ trades' = <<>>

C10_DuplicateIsNoOp == [][C10_DuplicateStep]_vars

\* a duplicate addOrder that would have crossed the book had it been taken
C10_Witness ==
    /\ lastOp.op = "addOrder"
    /\ lastOp.known
    /\ lastOp.side = "Sell"
    /\ \E p \in DOMAIN bids_ : lastOp.price <= p

(***************************************************************************)
(* C11: submit idempotence.  An addOrder that repeats the call just made,  *)
(* with the same identifier, price, quantity and side, changes nothing and *)
(* prints no trade, whatever became of the first submission.               *)
(***************************************************************************)
C11_RetryStep ==
    (/\ lastOp.op = "addOrder"
     /\ lastOp'.op = "addOrder"
     /\ lastOp'.id = lastOp.id
     /\ lastOp'.price = lastOp.price
     /\ lastOp'.qty = lastOp.qty
     /\ lastOp'.side = lastOp.side)
        => /\ UNCHANGED <<bids_, asks_, orderMap_, pool_, freeIndices_>>
           /\ trades' = <<>>

C11_SubmitIdempotent == [][C11_RetryStep]_vars

(***************************************************************************)
(* C12: cancelOrder of an identifier that is not in the index prints       *)
(* "not found" and changes nothing: side books, index, pool and free stack *)
(* are as before and no level appears.  So a cancelOrder that repeats the  *)
(* cancelOrder just made reports not found and leaves the book as the      *)
(* first one left it.                                                      *)
(***************************************************************************)
C12_UnknownStep ==
    (lastOp'.op = "cancelOrder" /\ lastOp'.id \notin DOMAIN orderMap_)
        => /\ msg' = "not found"
           /\ UNCHANGED <<bids_, asks_, orderMap_, pool_, freeIndices_>>
           /\ trades' = <<>>

C12_RepeatStep ==
    (/\ lastOp.op = "cancelOrder"
     /\ lastOp'.op = "cancelOrder"
     /\ lastOp'.id = lastOp.id)
        => /\ msg' = "not found"
           /\ UNCHANGED <<bids_, asks_, orderMap_, pool_, freeIndices_>>

C12_CancelUnknownIsNoOp == [][C12_UnknownStep /\ C12_RepeatStep]_vars

\* addOrder(1), cancelOrder(1), cancelOrder(1): the second cancel finds nothing
C12_Witness ==
    /\ calls = 3
    /\ lastOp.op = "cancelOrder"
    /\ msg = "not found"
    /\ lastOp.id \in DOMAIN cancelled

(***************************************************************************)
(* C13: with no free slot in the pool, an addOrder whose identifier is not *)
(* in the index is dropped whole: it is not accepted, the index, the side  *)
(* books, the pool and the free stack are as before, and no trade is       *)
(* printed, even when its price crosses the book.                          *)
(***************************************************************************)
C13_ExhaustedStep ==
    (/\ lastOp'.op = "addOrder"
     /\ lastOp'.id \notin DOMAIN orderMap_
     /\ freeIndices_ = <<>>)
        => /\ ~lastOp'.accepted
           /\ UNCHANGED <<bids_, asks_, orderMap_, pool_, freeIndices_>>
           /\ trades' = <<>>

C13_ExhaustedIsDropped == [][C13_ExhaustedStep]_vars

\* a sell that crosses the best bid was dropped for want of a slot
C13_Witness ==
    /\ lastOp.op = "addOrder"
    /\ ~lastOp.known
    /\ ~lastOp.accepted
    /\ freeIndices_ = <<>>
    /\ lastOp.side = "Sell"
    /\ \E p \in DOMAIN bids_ : lastOp.price <= p

(***************************************************************************)
(* C14: an addOrder dropped because the pool has no free slot gives the    *)
(* caller an outcome (addOrder returns void, so: the lines it prints) that *)
(* differs from the outcome of an ignored duplicate and of an accepted     *)
(* order that rests, which both print nothing.                             *)
(***************************************************************************)
C14_ExhaustionReported ==
    (lastOp.op = "addOrder" /\ ~lastOp.known /\ ~lastOp.accepted)
        => <<trades, msg>> # <<<<>>, "">>

(***************************************************************************)
(* C15: slot recovery.  With as many live orders as the pool has slots, an *)
(* addOrder whose identifier is not in the index is not accepted.  The     *)
(* addOrder of such an identifier that follows a successful cancelOrder is *)
(* accepted: it is entered in the index and linked into the level of its   *)
(* side and price (the book as append left it, before the cross loop).     *)
(***************************************************************************)
\* the book as addOrder's append left it: what the first iteration of the
\* cross loop found, or the book returned when the loop did nothing
AfterAppend == IF trades = <<>> THEN CurrentBook ELSE trades[1].before

\* id is indexed in bk and its record is linked in the level of (side, price)
IndexedAndLinked(bk, id, price, side) ==
    /\ id \in DOMAIN bk.orderMap
    /\ <<side, price>> \in LevelsOf(bk)
    /\ bk.orderMap[id] \in Range(QueueAt(bk, <<side, price>>))
    /\ bk.pool[bk.orderMap[id]].id = id

C15_FullStep ==
    (/\ lastOp'.op = "addOrder"
     /\ lastOp'.id \notin DOMAIN orderMap_
     /\ Cardinality(DOMAIN orderMap_) = Capacity(pool_))
        => /\ ~lastOp'.accepted
           /\ lastOp'.id \notin DOMAIN orderMap_'

C15_RecoveredStep ==
    (/\ lastOp.op = "cancelOrder"
     /\ msg = "Cancelled"
     /\ lastOp'.op = "addOrder"
     /\ lastOp'.id \notin DOMAIN orderMap_)
        => /\ lastOp'.accepted
           /\ IndexedAndLinked(AfterAppend', lastOp'.id, lastOp'.price, lastOp'.side)

RECURSIVE Without(_, _)
Without(q, s) ==
    IF q = <<>> THEN <<>>
    ELSE IF Head(q) = s THEN Without(Tail(q), s)
         ELSE <<Head(q)>> \o Without(Tail(q), s)

\* the list of level sp of bk is consistently linked from head_ to tail_
WellLinked(bk, sp) ==
    /\ QueueAt(bk, sp) # <<>>
    /\ LevelRec(bk, sp).head_ = QueueAt(bk, sp)[1]
    /\ LevelRec(bk, sp).tail_ = QueueAt(bk, sp)[Len(QueueAt(bk, sp))]
    /\ bk.pool[LevelRec(bk, sp).head_].prev = nullptr
    /\ bk.pool[LevelRec(bk, sp).tail_].next = nullptr
    /\ \A i \in 2 .. Len(QueueAt(bk, sp)) :
          bk.pool[QueueAt(bk, sp)[i]].prev = QueueAt(bk, sp)[i - 1]

\* new is old with the order in slot s of level sp, indexed as id, removed
RemovedExactly(old, new, id, s, sp) ==
    /\ new.orderMap = MapErase(old.orderMap, id)
    /\ new.free = Append(old.free, s)
    /\ new.pool[s].next = nullptr
    /\ new.pool[s].prev = nullptr
    /\ s \notin LinkedSlots(new)
    /\ LevelsOf(new) \ {sp} = LevelsOf(old) \ {sp}
    /\ sp \in LevelsOf(new) <=> QueueAt(old, sp) # <<s>>
    /\ sp \in LevelsOf(new) =>
          /\ QueueAt(new, sp) = Without(QueueAt(old, sp), s)
          /\ WellLinked(new, sp)
          /\ LevelRec(old, sp).head_ = s => LevelRec(new, sp).head_ = old.pool[s].next
    /\ \A o \in LevelsOf(old) \ {sp} :
          /\ LevelRec(new, o) = LevelRec(old, o)
          /\ \A x \in Range(QueueAt(old, o)) : new.pool[x] = old.pool[x]
    /\ \A e \in DOMAIN new.orderMap :
          /\ new.pool[new.orderMap[e]].id = old.pool[old.orderMap[e]].id
          /\ new.pool[new.orderMap[e]].price = old.pool[old.orderMap[e]].price
          /\ new.pool[new.orderMap[e]].quantity = old.pool[old.orderMap[e]].quantity
          /\ new.pool[new.orderMap[e]].side = old.pool[old.orderMap[e]].side

C16_CancelStep ==
    (lastOp'.op = "cancelOrder" /\ lastOp'.id \in DOMAIN orderMap_)
        => /\ msg' = "Cancelled"
           /\ trades' = <<>>
           /\ RemovedExactly(CurrentBook, CurrentBook', lastOp'.id,
                              orderMap_[lastOp'.id],
                              <<pool_[orderMap_[lastOp'.id]].side,
                                pool_[orderMap_[lastOp'.id]].price>>)

C17_CancelledNeverTrades ==
    \A k \in DOMAIN trades :
        /\ trades[k].bid \notin DOMAIN cancelled
        /\ trades[k].ask \notin DOMAIN cancelled

\* buy 1 was cancelled; a sell at or below its price then found nothing to
\* trade with and rests
C17_Witness ==
    /\ lastOp.op = "addOrder"
    /\ lastOp.accepted
    /\ lastOp.side = "Sell"
    /\ trades = <<>>
    /\ IndexedAndLinked(CurrentBook, lastOp.id, lastOp.price, lastOp.side)
    /\ \E c \in DOMAIN cancelled :
          /\ cancelled[c].side = "Buy"
          /\ cancelled[c].price >= lastOp.price

(***************************************************************************)
(* C18: an accepted addOrder prints at least one trade exactly when its    *)
(* price crosses the opposite side of the book it found: a buy at or above *)
(* the lowest ask price, a sell at or below the highest bid price.         *)
(***************************************************************************)
\* an order of this side and price crosses the opposite side of bk
Crosses(bk, price, side) ==
    IF side = "Buy"
    THEN \E a \in DOMAIN bk.asks : price >= a
    ELSE \E b \in DOMAIN bk.bids : price <= b

C18_CrossStep ==
    (lastOp'.op = "addOrder" /\ lastOp'.accepted)
        => (trades' # <<>> <=> Crosses(CurrentBook, lastOp'.price, lastOp'.side))

C18_TradesIffCrosses == [][C18_CrossStep]_vars

\* a buy priced above the lowest ask traded
C18_Witness ==
    /\ lastOp.op = "addOrder"
    /\ lastOp.accepted
    /\ lastOp.side = "Buy"
    /\ trades # <<>>
    /\ trades[1].bid = lastOp.id
    /\ \E a \in DOMAIN trades[1].before.asks : a < lastOp.price

(***************************************************************************)
(* C19: an accepted addOrder that does not cross prints no trade and only  *)
(* rests.  The new order is linked at the tail of the level of its side    *)
(* and price and entered in the index; every other level, every other      *)
(* order and the opposite side book are as before.                         *)
(***************************************************************************)
\* the list of level sp in bk, empty when bk has no such level
QueueOrEmpty(bk, sp) == IF sp \in LevelsOf(bk) THEN QueueAt(bk, sp) ELSE <<>>

\* new is old with the order (id, price, qty, side) resting in slot s at the
\* tail of level sp
RestedOnly(old, new, id, price, qty, side, s, sp) ==
    /\ new.orderMap = MapPut(old.orderMap, id, s)
    /\ new.free = SubSeq(old.free, 1, Len(old.free) - 1)
    /\ new.pool[s] = [Order(id, price, qty, side) EXCEPT !.prev = new.pool[s].prev]
    /\ LevelsOf(new) = LevelsOf(old) \cup {sp}
    /\ QueueAt(new, sp) = Append(QueueOrEmpty(old, sp), s)
    /\ WellLinked(new, sp)
    /\ LevelRec(new, sp).tail_ = s
    /\ \A o \in LevelsOf(old) \ {sp} :
          /\ LevelRec(new, o) = LevelRec(old, o)
          /\ \A x \in Range(QueueAt(old, o)) : new.pool[x] = old.pool[x]
    /\ side = "Buy" => new.asks = old.asks
    /\ side = "Sell" => new.bids = old.bids
    /\ \A e \in DOMAIN old.orderMap :
          /\ new.orderMap[e] = old.orderMap[e]
          /\ new.pool[new.orderMap[e]].id = old.pool[old.orderMap[e]].id
          /\ new.pool[new.orderMap[e]].price = old.pool[old.orderMap[e]].price
          /\ new.pool[new.orderMap[e]].quantity = old.pool[old.orderMap[e]].quantity
          /\ new.pool[new.orderMap[e]].side = old.pool[old.orderMap[e]].side

C19_RestStep ==
    (/\ lastOp'.op = "addOrder"
     /\ lastOp'.accepted
     /\ ~Crosses(CurrentBook, lastOp'.price, lastOp'.side))
        => /\ trades' = <<>>
           /\ RestedOnly(CurrentBook, CurrentBook', lastOp'.id, lastOp'.price,
                          lastOp'.qty, lastOp'.side,
                          freeIndices_[Len(freeIndices_)],
                          <<lastOp'.side, lastOp'.price>>)

C19_NonCrossingOnlyRests == [][C19_RestStep]_vars

\* an order joined a level behind an older order, with the opposite side
\* holding an order at an unfavourable price
C19_Witness ==
    /\ lastOp.op = "addOrder"
    /\ lastOp.accepted
    /\ trades = <<>>
    /\ IndexedAndLinked(CurrentBook, lastOp.id, lastOp.price, lastOp.side)
    /\ Len(QueueAt(CurrentBook, <<lastOp.side, lastOp.price>>)) >= 2
    /\ LevelRec(CurrentBook, <<lastOp.side, lastOp.price>>).tail_ = orderMap_[lastOp.id]
    /\ lastOp.side = "Buy" => DOMAIN asks_ # {}
    /\ lastOp.side = "Sell" => DOMAIN bids_ # {}

(***************************************************************************)
(* C20: quantity conservation.  Each trade takes its quantity from both    *)
(* orders it names.  For every accepted order, the quantity submitted is   *)
(* the remaining quantity plus the quantities of the trades that named it; *)
(* an order whose remaining quantity reached zero is unlinked, out of the  *)
(* index and its slot released when the call returns; an order filled in   *)
(* part stays indexed and linked with the reduced remaining quantity.      *)
(***************************************************************************)
\* the remaining quantity of id in bk: zero once it has left the index
Remaining(bk, id) == IF id \in DOMAIN bk.orderMap THEN OrderOf(bk, id).quantity ELSE 0

\* the book that the k-th trade of the last call left
BookAfter(k) == IF k < Len(trades) THEN trades[k + 1].before ELSE CurrentBook

C20_TradeTakesFromBoth ==
    \A k \in DOMAIN trades :
        /\ trades[k].quantity > 0
        /\ Remaining(BookAfter(k), trades[k].bid)
              = Remaining(trades[k].before, trades[k].bid) - trades[k].quantity
        /\ Remaining(BookAfter(k), trades[k].ask)
              = Remaining(trades[k].before, trades[k].ask) - trades[k].quantity

C20_LedgerBalances ==
    \A id \in DOMAIN ledger :
        IF id \in DOMAIN orderMap_
        THEN /\ ledger[id].original = pool_[orderMap_[id]].quantity + ledger[id].filled
             /\ pool_[orderMap_[id]].quantity > 0
             /\ IndexedAndLinked(CurrentBook, id, pool_[orderMap_[id]].price,
                                  pool_[orderMap_[id]].side)
        ELSE \/ lastOp.op = "cancelOrder" /\ lastOp.id = id /\ msg = "Cancelled"
             \/ /\ ledger[id].original = ledger[id].filled
                /\ \A s \in LinkedSlots(CurrentBook) : pool_[s].id # id
                /\ \E k \in DOMAIN trades :
                      /\ id \in {trades[k].bid, trades[k].ask}
                      /\ trades[k].before.orderMap[id] \in Range(freeIndices_)

C20_QuantityConserved == C20_TradeTakesFromBoth /\ C20_LedgerBalances

\* an order filled in part by an earlier call was filled whole by this
\* one, whose own order rests with what is left of it
C20_Witness ==
    /\ lastOp.op = "addOrder"
    /\ lastOp.id \in DOMAIN orderMap_
    /\ lastOp.id \in DOMAIN ledger
    /\ ledger[lastOp.id].filled > 0
    /\ ledger[lastOp.id].filled < ledger[lastOp.id].original
    /\ \E id \in DOMAIN ledger :
          /\ id \notin DOMAIN orderMap_
          /\ ledger[id].filled = ledger[id].original
          /\ Len(trades) = 1
          /\ trades[1].quantity < ledger[id].original

(***************************************************************************)
(* C27: printBook lists the bid levels in descending price order and the   *)
(* ask levels in ascending price order, one line per level of the side     *)
(* book, each with the level's price and its cached volume.                *)
(***************************************************************************)
\* the lines list exactly the levels of side map m with their volumes
ListsLevels(lines, m) ==
    /\ {lines[i].price : i \in DOMAIN lines} = DOMAIN m
    /\ Len(lines) = Cardinality(DOMAIN m)
    /\ \A i \in DOMAIN lines : lines[i].vol = getVolume(m[lines[i].price])

C27_SnapshotOrder ==
    lastOp.op = "printBook" =>
        /\ ListsLevels(snapshot.bids, bids_)
        /\ ListsLevels(snapshot.asks, asks_)
        /\ \A i, j \in DOMAIN snapshot.bids :
              i < j => snapshot.bids[i].price > snapshot.bids[j].price
        /\ \A i, j \in DOMAIN snapshot.asks :
              i < j => snapshot.asks[i].price < snapshot.asks[j].price

(***************************************************************************)
(* C28: order lifecycle.  An accepted order enters the book indexed and    *)
(* linked.  While it stays in the index it keeps its record, id, price and *)
(* side, and its remaining quantity never grows.  Once it has left the     *)
(* index (filled whole or cancelled) it is not linked, and it is neither   *)
(* indexed nor traded again: an id enters the index only by an accepted    *)
(* addOrder of that id, a new order, and a trade names only orders that    *)
(* were in the index when the call began or the order the call submitted.  *)
(***************************************************************************)
C28_EntersResting ==
    (lastOp'.op = "addOrder" /\ lastOp'.accepted)
        => IndexedAndLinked(AfterAppend', lastOp'.id, lastOp'.price, lastOp'.side)

C28_LiveKeepsIdentity ==
    \A e \in (DOMAIN orderMap_) \cap (DOMAIN orderMap_') :
        /\ orderMap_'[e] = orderMap_[e]
        /\ pool_'[orderMap_'[e]].id = pool_[orderMap_[e]].id
        /\ pool_'[orderMap_'[e]].price = pool_[orderMap_[e]].price
        /\ pool_'[orderMap_'[e]].side = pool_[orderMap_[e]].side
        /\ pool_'[orderMap_'[e]].quantity <= pool_[orderMap_[e]].quantity

C28_TerminalIsFinal ==
    /\ \A e \in (DOMAIN orderMap_') \ (DOMAIN orderMap_) :
          lastOp'.op = "addOrder" /\ lastOp'.accepted /\ lastOp'.id = e
    /\ \A e \in (DOMAIN orderMap_) \ (DOMAIN orderMap_') :
          /\ orderMap_[e] \notin LinkedSlots(CurrentBook')
          /\ orderMap_[e] \in Range(freeIndices_')
    /\ \A k \in DOMAIN trades' :
          {trades'[k].bid, trades'[k].ask} \subseteq (DOMAIN orderMap_) \cup {lastOp'.id}

C28_Lifecycle ==
    [][C28_EntersResting /\ C28_LiveKeepsIdentity /\ C28_TerminalIsFinal]_vars

\* an order filled in part by the call before was filled whole by this one
C28_Witness ==
    /\ lastOp.op = "addOrder"
    /\ trades # <<>>
    /\ \E id \in DOMAIN ledger :
          /\ id # lastOp.id
          /\ id \notin DOMAIN orderMap_
          /\ ledger[id].filled = ledger[id].original
          /\ \E k \in DOMAIN trades :
                /\ id \in {trades[k].bid, trades[k].ask}
                /\ Remaining(trades[k].before, id) < ledger[id].original

(***************************************************************************)
(* C29: with every addOrder called with a quantity above zero, after every *)
(* call each order linked in a level has a remaining quantity above zero;  *)
(* an order that a trade of the call left with quantity zero is unlinked,  *)
(* out of the index and its slot released when the call returns.           *)
(***************************************************************************)
C29_LinkedIsPositive ==
    /\ \A s \in LinkedSlots(CurrentBook) : pool_[s].quantity > 0
    /\ \A k \in DOMAIN trades :
          \A f \in {trades[k].bid, trades[k].ask} :
              Remaining(trades[k].before, f) = trades[k].quantity
                  => /\ f \notin DOMAIN orderMap_
                     /\ trades[k].before.orderMap[f] \notin LinkedSlots(CurrentBook)
                     /\ trades[k].before.orderMap[f] \in Range(freeIndices_)

\* a trade took the whole of one order and left the other resting with the rest
C29_Witness ==
    \E k \in DOMAIN trades :
        /\ Remaining(trades[k].before, trades[k].bid) = trades[k].quantity
        /\ trades[k].ask \in DOMAIN orderMap_
        /\ pool_[orderMap_[trades[k].ask]].quantity > 0

(***************************************************************************)
(* C30: level queue well-formedness.  In the book every call returns, and  *)
(* in the book every iteration of the cross loop finds (after addOrder's   *)
(* append and after each remove), following next from a level's head       *)
(* visits each linked order once and ends at tail, prev is the inverse of  *)
(* next, head.prev and tail.next are null, head is null exactly when tail  *)
(* is null, no order is linked in two levels, and every record not linked  *)
(* in a level has next and prev null.                                      *)
(***************************************************************************)
NoRepeat(q) == \A i, j \in DOMAIN q : q[i] = q[j] => i = j

WellFormed(bk) ==
    /\ \A sp \in LevelsOf(bk) :
          /\ (LevelRec(bk, sp).head_ = nullptr) <=> (LevelRec(bk, sp).tail_ = nullptr)
          /\ LevelRec(bk, sp).head_ # nullptr => WellLinked(bk, sp)
          /\ NoRepeat(QueueAt(bk, sp))
          /\ \A i \in 1 .. (Len(QueueAt(bk, sp)) - 1) :
                bk.pool[QueueAt(bk, sp)[i]].next = QueueAt(bk, sp)[i + 1]
    /\ \A sp, o \in LevelsOf(bk) :
          sp # o => Range(QueueAt(bk, sp)) \cap Range(QueueAt(bk, o)) = {}
    /\ \A s \in (DOMAIN bk.pool) \ LinkedSlots(bk) :
          bk.pool[s].next = nullptr /\ bk.pool[s].prev = nullptr

C30_QueuesWellFormed ==
    /\ WellFormed(CurrentBook)
    /\ \A k \in DOMAIN trades : WellFormed(trades[k].before)

\* the cross loop removed the head of a level of two: the order behind it
\* is now head and tail
C30_Witness ==
    \E k \in DOMAIN trades :
        \E sp \in LevelsOf(trades[k].before) \cap LevelsOf(CurrentBook) :
            /\ Len(QueueAt(trades[k].before, sp)) = 2
            /\ QueueAt(CurrentBook, sp) = <<QueueAt(trades[k].before, sp)[2]>>
            /\ QueueAt(trades[k].before, sp)[1] \in Range(freeIndices_)

(***************************************************************************)
(* simulation.cpp: networkThread pushes requests into a LockFreeQueue and  *)
(* engineThread pops them and applies them to an OrderBook it alone uses.  *)
(* Each atomic load, each atomic store and each access of a buffer slot is *)
(* one step of its thread.                                                 *)
(***************************************************************************)
\* networkThread sends MaxRequests requests (500000 in simulation.cpp)
MaxRequests == 3
\* the queue is constructed with a size of 1 .. MaxQueueSize (1024 in main)
MaxQueueSize == 2

\* a value-initialised OrderRequest, as std::vector<T>(size + 1) holds
DefaultRequest ==
    [id |-> 0, price |-> 0, qty |-> 0, side |-> "Buy", isCancel |-> FALSE]

\* the request networkThread builds in iteration i
OrderRequest(i) ==
    [id |-> i, price |-> 100 + (i % 10), qty |-> 10,
     side |-> IF i % 2 = 0 THEN "Buy" ELSE "Sell", isCancel |-> FALSE]

\* a cancellation of order id, which OrderRequest and engineThread provide for
CancelRequest(id) == [DefaultRequest EXCEPT !.id = id, !.isCancel = TRUE]

\* the requests a producer can send in iteration i
RequestsAt(i) == {OrderRequest(i)} \cup {CancelRequest(id) : id \in 0 .. (i - 1)}

\* LockFreeQueue(size): capacity_(size + 1)
queueCapacity(size) == size + 1

\* LockFreeQueue(size): buffer_(size + 1), indexed from 0
queueBuffer(size) == [k \in 0 .. size |-> DefaultRequest]

\* (index + 1) % capacity_
nextIndex(index, capacity) == (index + 1) % capacity

\* a push that finds the queue full whatever head_ is
isFull_always(nextTail, head) == TRUE

\* a push that never finds the queue full
isFull_never(nextTail, head) == FALSE

\* push: nextTail == head_.load(acquire)
isFull(nextTail, head) == nextTail = head

\* a pop that never finds the queue empty
isEmptyQueue_never(currentHead, tail) == FALSE

\* pop: currentHead == tail_.load(acquire)
isEmptyQueue(currentHead, tail) == currentHead = tail

\* an engine that submits every request as an order
isCancelRequest_never(req) == FALSE

\* engineThread: if(req.isCancel)
isCancelRequest(req) == req.isCancel

\* main: queue(size) and the two threads at the top of their loops
NewQueue ==
    /\ \E size \in 1 .. MaxQueueSize :
          /\ buffer_ = queueBuffer(size)
          /\ capacity_ = queueCapacity(size)
    /\ head_ = 0
    /\ tail_ = 0
    /\ prod = [pc |-> "loop", i |-> 0, req |-> DefaultRequest,
               currentTail |-> 0, nextTail |-> 0, ret |-> "none"]
    /\ cons = [pc |-> "loop", processedCount |-> 0, req |-> DefaultRequest,
               currentHead |-> 0, ret |-> "none"]
    /\ pushed = <<>>
    /\ popped = <<>>
    /\ applied = <<>>
    /\ tape = <<>>
    /\ flag = FALSE
    /\ tpc = <<>>

InitSim == NewBook /\ NewQueue

\* what a step of networkThread leaves alone
NetworkOnly == UNCHANGED <<bookVars, lockVars, cons, popped, applied, tape>>

\* what a step of engineThread inside pop leaves alone
EngineOnly == UNCHANGED <<bookVars, lockVars, prod, pushed, applied, tape>>

\* for(int i = 0; i < 500000; ++i) { OrderRequest req = {...}; ... }
NetworkLoop ==
    /\ prod.pc = "loop"
    /\ IF prod.i < MaxRequests
       THEN \E req \in RequestsAt(prod.i) :
               prod' = [prod EXCEPT !.pc = "pushLoadTail", !.req = req]
       ELSE prod' = [prod EXCEPT !.pc = "done"]
    /\ UNCHANGED <<buffer_, head_, tail_, capacity_, pushed>>
    /\ NetworkOnly

\* push: currentTail = tail_.load(relaxed); nextTail = (currentTail + 1) % capacity_
PushLoadTail ==
    /\ prod.pc = "pushLoadTail"
    /\ prod' = [prod EXCEPT !.pc = "pushLoadHead",
                            !.currentTail = tail_,
                            !.nextTail = nextIndex(tail_, capacity_)]
    /\ UNCHANGED <<buffer_, head_, tail_, capacity_, pushed>>
    /\ NetworkOnly

\* push: if(nextTail == head_.load(acquire)) return false; and the caller's
\* while(!queue.push(req)) {} calls push again
PushLoadHead ==
    /\ prod.pc = "pushLoadHead"
    /\ prod' = IF isFull(prod.nextTail, head_)
               THEN [prod EXCEPT !.pc = "pushLoadTail", !.ret = "false"]
               ELSE [prod EXCEPT !.pc = "pushWrite"]
    /\ UNCHANGED <<buffer_, head_, tail_, capacity_, pushed>>
    /\ NetworkOnly

\* push: buffer_[currentTail] = item
PushWrite ==
    /\ prod.pc = "pushWrite"
    /\ buffer_' = [buffer_ EXCEPT ![prod.currentTail] = prod.req]
    /\ prod' = [prod EXCEPT !.pc = "pushStoreTail"]
    /\ UNCHANGED <<head_, tail_, capacity_, pushed>>
    /\ NetworkOnly

\* push: tail_.store(nextTail, release); return true; and the for loop's ++i
PushStoreTail ==
    /\ prod.pc = "pushStoreTail"
    /\ tail_' = prod.nextTail
    /\ pushed' = Append(pushed, prod.req)
    /\ prod' = [prod EXCEPT !.pc = "loop", !.ret = "true", !.i = @ + 1]
    /\ UNCHANGED <<buffer_, head_, capacity_>>
    /\ NetworkOnly

\* while(processedCount < 500000) { OrderRequest req; if(queue.pop(req)) ...
EngineLoop ==
    /\ cons.pc = "loop"
    /\ cons' = IF cons.processedCount < MaxRequests
               THEN [cons EXCEPT !.pc = "popLoadHead"]
               ELSE [cons EXCEPT !.pc = "done"]
    /\ UNCHANGED <<buffer_, head_, tail_, capacity_, popped>>
    /\ EngineOnly

\* pop: currentHead = head_.load(relaxed)
PopLoadHead ==
    /\ cons.pc = "popLoadHead"
    /\ cons' = [cons EXCEPT !.pc = "popLoadTail", !.currentHead = head_]
    /\ UNCHANGED <<buffer_, head_, tail_, capacity_, popped>>
    /\ EngineOnly

\* pop: if(currentHead == tail_.load(acquire)) return false; and the engine
\* loops again
PopLoadTail ==
    /\ cons.pc = "popLoadTail"
    /\ cons' = IF isEmptyQueue(cons.currentHead, tail_)
               THEN [cons EXCEPT !.pc = "loop", !.ret = "false"]
               ELSE [cons EXCEPT !.pc = "popRead"]
    /\ UNCHANGED <<buffer_, head_, tail_, capacity_, popped>>
    /\ EngineOnly

\* pop: item = buffer_[currentHead]
PopRead ==
    /\ cons.pc = "popRead"
    /\ cons' = [cons EXCEPT !.pc = "popStoreHead", !.req = buffer_[cons.currentHead]]
    /\ UNCHANGED <<buffer_, head_, tail_, capacity_, popped>>
    /\ EngineOnly

\* pop: head_.store((currentHead + 1) % capacity_, release); return true
PopStoreHead ==
    /\ cons.pc = "popStoreHead"
    /\ head_' = nextIndex(cons.currentHead, capacity_)
    /\ popped' = Append(popped, cons.req)
    /\ cons' = [cons EXCEPT !.pc = "apply", !.ret = "true"]
    /\ UNCHANGED <<buffer_, tail_, capacity_>>
    /\ EngineOnly

\* processedCount++ and back to the top of the while loop
EngineCounts ==
    /\ cons.pc = "apply"
    /\ cons' = [cons EXCEPT !.pc = "loop", !.processedCount = @ + 1]

\* if(req.isCancel) book.cancelOrder(req.id);
\* else book.addOrder(req.id, req.price, req.qty, req.side); processedCount++
EngineApply ==
    /\ EngineCounts
    /\ IF isCancelRequest(cons.req)
       THEN /\ CancelReturns(cancelOrder(CurrentBook, cons.req.id), cons.req.id)
            /\ tape' = tape
       ELSE /\ AddReturns(addOrder(CurrentBook, cons.req.id, cons.req.price,
                                   cons.req.qty, cons.req.side),
                          cons.req.id, cons.req.price, cons.req.qty, cons.req.side)
            /\ tape' = tape \o addOrder(CurrentBook, cons.req.id, cons.req.price,
                                        cons.req.qty, cons.req.side).trades
    /\ applied' = Append(applied, cons.req)
    /\ UNCHANGED <<buffer_, head_, tail_, capacity_, prod, pushed, popped, lockVars>>

networkThread ==
    \/ NetworkLoop
    \/ PushLoadTail
    \/ PushLoadHead
    \/ PushWrite
    \/ PushStoreTail

engineThread ==
    \/ EngineLoop
    \/ PopLoadHead
    \/ PopLoadTail
    \/ PopRead
    \/ PopStoreHead
    \/ EngineApply

NextSim == networkThread \/ engineThread

SpecSim == InitSim /\ [][NextSim]_vars

\* the steps of engineThread as its own locals show them
engineSteps ==
    \/ EngineLoop
    \/ PopLoadHead
    \/ PopLoadTail
    \/ PopRead
    \/ PopStoreHead
    \/ EngineCounts

\* both threads run on a core of their own: each takes its next step again
\* and again until it returns
SpecSimFair == SpecSim /\ WF_prod(networkThread) /\ WF_cons(engineSteps)

\* s is an initial part of t
IsPrefix(s, t) == Len(s) <= Len(t) /\ \A k \in DOMAIN s : s[k] = t[k]

\* the items published and not yet consumed
Unconsumed == Len(pushed) - Len(popped)

(***************************************************************************)
(* C21: ring buffer FIFO, exactly once.  With one producer and one         *)
(* consumer, in every interleaving of their steps the items returned by    *)
(* successful pops are an initial part of the items accepted by successful *)
(* pushes: nothing is lost, duplicated, reordered or invented.  The item a *)
(* pop has read and is about to return is the next pushed item.            *)
(***************************************************************************)
C21_PoppedIsPrefixOfPushed ==
    /\ IsPrefix(popped, pushed)
    /\ cons.pc = "popStoreHead"
          => /\ Len(popped) < Len(pushed)
             /\ cons.req = pushed[Len(popped) + 1]

\* three items went through a queue of two slots, so a slot was used again
C21_Witness ==
    /\ capacity_ = 2
    /\ Len(popped) >= 3
    /\ popped = pushed
    /\ \E k \in DOMAIN popped : popped[k].isCancel

(***************************************************************************)
(* C22: ring buffer occupancy.  A queue of size N has N + 1 slots and      *)
(* never holds more than N unconsumed items; pop returns false exactly     *)
(* when head_ = tail_, which is when no unconsumed item is published; push *)
(* returns false exactly when (tail_ + 1) mod (N + 1) is the head_ it      *)
(* loads; so with no pop the first N pushes succeed and the next fails.    *)
(***************************************************************************)
C22_Bounded ==
    /\ DOMAIN buffer_ = 0 .. (capacity_ - 1)
    /\ capacity_ - 1 \in 1 .. MaxQueueSize
    /\ Unconsumed \in 0 .. (capacity_ - 1)
    /\ Unconsumed = (tail_ + capacity_ - head_) % capacity_
    /\ (head_ = tail_) <=> (Unconsumed = 0)

C22_PopReturn ==
    cons.pc = "popLoadTail"
        => (cons'.pc = "loop" /\ cons'.ret = "false") <=> (head_ = tail_)

C22_PushReturn ==
    prod.pc = "pushLoadHead"
        => /\ (prod'.pc = "pushLoadTail" /\ prod'.ret = "false")
                 <=> ((tail_ + 1) % capacity_ = head_)
           /\ popped = <<>>
                 => ((prod'.pc = "pushLoadTail") <=> (Len(pushed) = capacity_ - 1))

C22_Occupancy ==
    [][C22_Bounded /\ C22_Bounded' /\ (cons' # cons => C22_PopReturn)
                   /\ (prod' # prod => C22_PushReturn)]_vars

\* nothing was popped, two pushes succeeded on a queue of size 2 and the
\* third returned false
C22_Witness ==
    /\ capacity_ = 3
    /\ popped = <<>>
    /\ Len(pushed) = 2
    /\ prod.pc = "pushLoadTail"
    /\ prod.ret = "false"

(***************************************************************************)
(* C23: ring buffer slot exclusivity.  In every interleaving the           *)
(* producer's write of buffer_[tail] and the consumer's read of            *)
(* buffer_[head] are never under way on the same slot, and the slot the    *)
(* producer writes never holds an item that is published and not yet       *)
(* consumed.                                                               *)
(***************************************************************************)
\* the slots that hold a published, unconsumed item
UnconsumedSlots == {(head_ + k) % capacity_ : k \in 0 .. (Unconsumed - 1)}

C23_SlotExclusive ==
    /\ (prod.pc = "pushWrite" /\ cons.pc = "popRead")
          => prod.currentTail # cons.currentHead
    /\ prod.pc = "pushWrite" => prod.currentTail \notin UnconsumedSlots
    /\ cons.pc = "popRead" => cons.currentHead \in UnconsumedSlots

\* the producer is writing one slot while the consumer is reading another
C23_Witness ==
    /\ prod.pc = "pushWrite"
    /\ cons.pc = "popRead"

(***************************************************************************)
(* C24: end-to-end delivery.  The producer retries push until it succeeds  *)
(* for each of its requests and the consumer loops on pop until it has     *)
(* processed as many; when both threads are scheduled fairly both loops    *)
(* end, and by then every request was applied to the book once, in the     *)
(* order the producer pushed it.                                           *)
(***************************************************************************)
Delivered ==
    /\ prod.pc = "done"
    /\ cons.pc = "done"
    /\ Len(pushed) = MaxRequests
    /\ applied = pushed

C24_BothTerminate == <>[]Delivered

\* every request went through a queue smaller than the number of requests
C24_Witness ==
    /\ Delivered
    /\ capacity_ - 1 < MaxRequests
    /\ calls = MaxRequests

(***************************************************************************)
(* C25: determinism across the queue.  For every request sequence and      *)
(* every interleaving, the book the engine thread holds and the trades it  *)
(* printed are those of applying the requests applied so far, in the       *)
(* producer's order, directly to a new OrderBook in one thread; when the   *)
(* engine has finished, that is the whole request sequence.                *)
(***************************************************************************)
\* a new OrderBook with the capacity of the engine's book, no trade printed
Fresh ==
    [book |-> Book(EmptyMap, EmptyMap, EmptyMap,
                   PoolInit(Capacity(pool_)), FreeInit(Capacity(pool_))),
     trades |-> <<>>]

\* one request applied by a direct call
Direct(st, req) ==
    IF req.isCancel
    THEN [book |-> cancelOrder(st.book, req.id).book, trades |-> st.trades]
    ELSE [book |-> addOrder(st.book, req.id, req.price, req.qty, req.side).book,
          trades |-> st.trades
                     \o addOrder(st.book, req.id, req.price, req.qty, req.side).trades]

\* the requests applied one after the other in one thread
RECURSIVE Sequential(_, _)
Sequential(st, reqs) ==
    IF reqs = <<>> THEN st ELSE Sequential(Direct(st, Head(reqs)), Tail(reqs))

C25_SameAsSequential ==
    /\ IsPrefix(applied, pushed)
    /\ CurrentBook = Sequential(Fresh, applied).book
    /\ tape = Sequential(Fresh, applied).trades
    /\ cons.pc = "done" => applied = pushed /\ Len(applied) = MaxRequests

\* the engine has finished a sequence that made a trade
C25_Witness ==
    /\ cons.pc = "done"
    /\ prod.pc = "done"
    /\ tape # <<>>
    /\ CurrentBook = Sequential(Fresh, pushed).book

(***************************************************************************)
(* ThreadSafeOrderBook: an OrderBook and a SpinLock; each method takes the *)
(* lock, calls the book and releases the lock.  Threads are the trader     *)
(* threads of the stress test; a call into the book is not atomic: it      *)
(* begins on the book it finds and later returns its result.               *)
(***************************************************************************)
\* the test starts MaxThreads trader threads (4 in NoCrashesUnderLoad)
MaxThreads == 2

\* the id parameter of traderThread
Threads == 0 .. (MaxThreads - 1)

\* traderThread: the order of iteration i of thread id
traderOrder(id, i) ==
    [id |-> (id * 1000000) + i, price |-> 100 + (i % 5), qty |-> 10,
     side |-> IF i % 2 = 0 THEN "Buy" ELSE "Sell", isCancel |-> FALSE]

\* the three methods of ThreadSafeOrderBook with their arguments
AddCall(req) == [op |-> "addOrder", req |-> req]
CancelCall(id) == [op |-> "cancelOrder", req |-> CancelRequest(id)]
PrintCall == [op |-> "printBook", req |-> DefaultRequest]

\* a thread outside ThreadSafeOrderBook that has submitted i orders
Outside(i) == [pc |-> "idle", i |-> i, call |-> PrintCall, seen |-> <<>>]

\* the ids the calls that have returned named
SentIds == {applied[n].id : n \in DOMAIN applied}

\* the calls thread t can make next
CallsOf(t) ==
    {AddCall(traderOrder(t, tpc[t].i)), PrintCall} \cup {CancelCall(id) : id \in SentIds}

\* the threads between lock() returning and unlock()
Holders == {t \in Threads : tpc[t].pc \in {"inside", "call", "unlock"}}

\* the threads inside a method of ThreadSafeOrderBook
Busy == {t \in Threads : tpc[t].pc # "idle"}

\* a lock() that spins whatever the flag was
spins_always(previous) == TRUE

\* a lock() that returns whatever the flag was
spins_never(previous) == FALSE

\* lock: while(flag.test_and_set(acquire)) {}  spins while the flag was set
spins(previous) == previous

\* ThreadSafeOrderBook(): a new book, a clear flag, and the threads started
InitTS ==
    /\ NewBook
    /\ flag = FALSE
    /\ tpc = [t \in Threads |-> Outside(0)]
    /\ applied = <<>>
    /\ tape = <<>>
    /\ buffer_ = <<>>
    /\ head_ = 0
    /\ tail_ = 0
    /\ capacity_ = 0
    /\ prod = [pc |-> "none"]
    /\ cons = [pc |-> "none"]
    /\ pushed = <<>>
    /\ popped = <<>>

\* a thread calls addOrder, cancelOrder or printBook of ThreadSafeOrderBook
TSCall(t, c) ==
    /\ tpc[t].pc = "idle"
    /\ calls + Cardinality(Busy) < MaxCalls
    /\ tpc' = [tpc EXCEPT ![t].pc = "lock", ![t].call = c]
    /\ UNCHANGED <<bookVars, queueVars, flag, applied, tape>>

\* lock_.lock(): one test_and_set; the loop ends when the flag was clear
SpinLockLock(t) ==
    /\ tpc[t].pc = "lock"
    /\ flag' = TRUE
    /\ tpc' = [tpc EXCEPT ![t].pc = IF spins(flag) THEN "lock" ELSE "inside"]
    /\ UNCHANGED <<bookVars, queueVars, applied, tape>>

\* the call into book_ begins
TSBegin(t) ==
    /\ tpc[t].pc = "inside"
    /\ tpc' = [tpc EXCEPT ![t].pc = "call", ![t].seen = CurrentBook]
    /\ UNCHANGED <<bookVars, queueVars, flag, applied, tape>>

\* book_.addOrder(id, price, qty, side) returns
TSAddReturns(t) ==
    /\ tpc[t].call.op = "addOrder"
    /\ AddReturns(addOrder(tpc[t].seen, tpc[t].call.req.id, tpc[t].call.req.price,
                           tpc[t].call.req.qty, tpc[t].call.req.side),
                  tpc[t].call.req.id, tpc[t].call.req.price,
                  tpc[t].call.req.qty, tpc[t].call.req.side)
    /\ applied' = Append(applied, tpc[t].call.req)
    /\ tpc' = [tpc EXCEPT ![t].pc = "unlock", ![t].i = @ + 1]

\* book_.cancelOrder(id) returns
TSCancelReturns(t) ==
    /\ tpc[t].call.op = "cancelOrder"
    /\ CancelReturns(cancelOrder(tpc[t].seen, tpc[t].call.req.id), tpc[t].call.req.id)
    /\ applied' = Append(applied, tpc[t].call.req)
    /\ tpc' = [tpc EXCEPT ![t].pc = "unlock"]

\* book_.printBook() returns
TSPrintReturns(t) ==
    /\ tpc[t].call.op = "printBook"
    /\ PrintReturns(printBook(tpc[t].seen))
    /\ applied' = applied
    /\ tpc' = [tpc EXCEPT ![t].pc = "unlock"]

\* the call into book_ returns
TSReturn(t) ==
    /\ tpc[t].pc = "call"
    /\ (TSAddReturns(t) \/ TSCancelReturns(t) \/ TSPrintReturns(t))
    /\ UNCHANGED <<queueVars, flag, tape>>

\* lock_.unlock(): flag.clear(release), and the method returns
SpinLockUnlock(t) ==
    /\ tpc[t].pc = "unlock"
    /\ flag' = FALSE
    /\ tpc' = [tpc EXCEPT ![t].pc = "idle"]
    /\ UNCHANGED <<bookVars, queueVars, applied, tape>>

NextTS ==
    \/ \E t \in Threads : \E c \in CallsOf(t) : TSCall(t, c)
    \/ \E t \in Threads : SpinLockLock(t)
    \/ \E t \in Threads : TSBegin(t)
    \/ \E t \in Threads : TSReturn(t)
    \/ \E t \in Threads : SpinLockUnlock(t)

SpecTS == InitTS /\ [][NextTS]_vars

(***************************************************************************)
(* C26: ThreadSafeOrderBook mutual exclusion.  At most one thread at a     *)
(* time is between lock() returning and unlock(), and the flag is set      *)
(* while one is; the book a call works on is the current book; so the book *)
(* is that of applying the calls that have returned, in the order they     *)
(* returned, to a new OrderBook, what printBook lists is that book, and    *)
(* the book invariants (never crossed, index mirrors book, no empty level, *)
(* pool conservation, well-formed queues) hold after each call.            *)
(***************************************************************************)
C26_MutualExclusion ==
    /\ Cardinality(Holders) <= 1
    /\ Holders # {} => flag
    /\ \A t \in Threads : tpc[t].pc = "call" => tpc[t].seen = CurrentBook
    /\ CurrentBook = Sequential(Fresh, applied).book
    /\ lastOp.op = "printBook" => snapshot = printBook(CurrentBook)
    /\ C1_NeverCrossed
    /\ C7_IndexMirrorsBook
    /\ C8_LevelsNonEmpty
    /\ C9_PoolConservation
    /\ C30_QueuesWellFormed

\* a thread is inside the book while another, whose earlier order rests in
\* the book, has found the flag set
C26_Witness ==
    \E t, u \in Threads :
        /\ t # u
        /\ tpc[t].pc = "call"
        /\ tpc[u].pc = "lock"
        /\ tpc[u].i = 1
        /\ traderOrder(u, 0).id \in DOMAIN orderMap_
        /\ flag

(***************************************************************************)
(* C31: the cross loop terminates.  Every iteration finds both side books  *)
(* non-empty with best bid >= best ask, trades the smaller of the two head *)
(* orders' remaining quantities, which is above zero, and fills whole and  *)
(* removes at least one of the two heads; so a call makes at most as many  *)
(* iterations as there were live orders when the loop began, and it        *)
(* returns with a side book empty or best bid below best ask.              *)
(***************************************************************************)
\* the orders in the index of book bk
LiveOrders(bk) == Cardinality(DOMAIN bk.orderMap)

\* both side books of bk hold a level and the best bid reaches the best ask
LoopContinues(bk) ==
    /\ DOMAIN bk.bids # {}
    /\ DOMAIN bk.asks # {}
    /\ BidsBegin(bk.bids) >= AsksBegin(bk.asks)

C31_IterationProgress ==
    \A k \in DOMAIN trades :
        /\ LoopContinues(trades[k].before)
        /\ trades[k].quantity = Min(Remaining(trades[k].before, trades[k].bid),
                                    Remaining(trades[k].before, trades[k].ask))
        /\ trades[k].quantity > 0
        /\ \E f \in {trades[k].bid, trades[k].ask} :
              /\ Remaining(trades[k].before, f) = trades[k].quantity
              /\ f \notin DOMAIN BookAfter(k).orderMap
        /\ LiveOrders(BookAfter(k)) < LiveOrders(trades[k].before)

C31_LoopTerminates ==
    /\ C31_IterationProgress
    /\ trades # <<>> => Len(trades) <= LiveOrders(trades[1].before)
    /\ ~LoopContinues(CurrentBook)

\* one call made two iterations: the first filled a resting order whole,
\* the second ended the loop by emptying a side book
C31_Witness ==
    /\ Len(trades) = 2
    /\ trades[1].bid = trades[2].bid
    /\ trades[1].ask # trades[2].ask
    /\ DOMAIN asks_ = {}

(***************************************************************************)
(* C32: when an addOrder crosses the book, the submitted order is the only *)
(* order of its level when the loop begins, that level is the best level   *)
(* of its side, and every trade of the call has the submitted order on its *)
(* own side and another order, resting since an earlier call, on the other *)
(* side: two resting orders are never matched with each other.             *)
(***************************************************************************)
\* the side and price of the order the last call submitted
Submitted == <<lastOp.side, lastOp.price>>

C32_AggressorInEveryTrade ==
    (lastOp.op = "addOrder" /\ trades # <<>>)
        => /\ lastOp.accepted
           /\ QueueAt(trades[1].before, Submitted)
                 = <<trades[1].before.orderMap[lastOp.id]>>
           /\ lastOp.side = "Buy" => lastOp.price = BidsBegin(trades[1].before.bids)
           /\ lastOp.side = "Sell" => lastOp.price = AsksBegin(trades[1].before.asks)
           /\ \A k \in DOMAIN trades :
                 IF lastOp.side = "Buy"
                 THEN trades[k].bid = lastOp.id /\ trades[k].ask # lastOp.id
                 ELSE trades[k].ask = lastOp.id /\ trades[k].bid # lastOp.id

\* a buy crossed the book while another bid level rested below it
C32_Witness ==
    /\ lastOp.op = "addOrder"
    /\ lastOp.side = "Buy"
    /\ trades # <<>>
    /\ Cardinality(DOMAIN trades[1].before.bids) = 2
    /\ lastOp.price > 1

(***************************************************************************)
(* C33: pool LIFO reuse.  allocate returns nullptr exactly when the free   *)
(* stack is empty; otherwise it returns the slot on top of the stack,      *)
(* which is the slot most recently given to deallocate and not allocated   *)
(* since, takes it off the stack, and writes into it a record with the     *)
(* given id, price, quantity and side and null prev and next, leaving the  *)
(* other slots as they are.  An order accepted right after a cancellation  *)
(* gets the cancelled order's slot.                                        *)
(***************************************************************************)
\* the top of the free stack of bk
Top(bk) == bk.free[Len(bk.free)]

\* what allocate returns for the arguments on book bk
AllocatesTop(bk, id, price, qty, side) ==
    /\ (allocate(bk, id, price, qty, side).obj = nullptr) <=> (bk.free = <<>>)
    /\ bk.free = <<>> => allocate(bk, id, price, qty, side).book = bk
    /\ bk.free # <<>> =>
          /\ allocate(bk, id, price, qty, side).obj = Top(bk)
          /\ allocate(bk, id, price, qty, side).book.free
                = SubSeq(bk.free, 1, Len(bk.free) - 1)
          /\ allocate(bk, id, price, qty, side).book.pool[Top(bk)]
                = [id |-> id, price |-> price, quantity |-> qty, side |-> side,
                   next |-> nullptr, prev |-> nullptr]
          /\ \A s \in (DOMAIN bk.pool) \ {Top(bk)} :
                allocate(bk, id, price, qty, side).book.pool[s] = bk.pool[s]

\* released slots come back newest first
LastInFirstOut(bk, id, price, qty, side) ==
    \A s, r \in Range(bk.orderMap) :
        /\ allocate(deallocate(bk, s), id, price, qty, side).obj = s
        /\ allocate(allocate(deallocate(deallocate(bk, s), r), id, price, qty, side).book,
                    id, price, qty, side).obj = s

C33_PoolLaw ==
    \A side \in Sides :
        /\ AllocatesTop(CurrentBook, nextId, MaxPrice, MaxQty, side)
        /\ LastInFirstOut(CurrentBook, nextId, MaxPrice, MaxQty, side)

C33_ReuseStep ==
    (lastOp'.op = "addOrder" /\ lastOp'.accepted)
        => /\ AfterAppend'.orderMap[lastOp'.id] = Top(CurrentBook)
           /\ freeIndices_ = Append(AfterAppend'.free, Top(CurrentBook))
           /\ (lastOp.op = "cancelOrder" /\ msg = "Cancelled")
                 => pool_[AfterAppend'.orderMap[lastOp'.id]].id = lastOp.id

C33_PoolLifo == []C33_PoolLaw /\ [][C33_ReuseStep]_vars

\* order 2 was accepted right after order 1 was cancelled, with two older
\* free slots below the one it was given
C33_Witness ==
    /\ lastOp.op = "addOrder"
    /\ lastOp.accepted
    /\ lastOp.id = 2
    /\ DOMAIN cancelled = {1}
    /\ DOMAIN orderMap_ = {2}
    /\ freeIndices_ = <<0, 1>>
    /\ orderMap_[2] = 2

(***************************************************************************)
(* C34: the engine never misuses the pool.  Over every sequence of         *)
(* addOrder and cancelOrder calls each deallocate is given a slot of the   *)
(* pool that is allocated at that moment, so the free stack never holds a  *)
(* slot twice, never holds the slot of an indexed order and never grows    *)
(* beyond the capacity.                                                    *)
(***************************************************************************)
\* the free stack of bk holds slots of the pool, each once, none of them
\* the slot of an indexed order
StackSound(bk) ==
    /\ Range(bk.free) \subseteq DOMAIN bk.pool
    /\ NoRepeat(bk.free)
    /\ Len(bk.free) <= Capacity(bk.pool)
    /\ Range(bk.free) \cap Range(bk.orderMap) = {}

\* the slots the k-th iteration of the last call released were allocated
\* when the iteration began and are on the stack after it
ReleasedWereAllocated(k) ==
    \A f \in {trades[k].bid, trades[k].ask} :
        Remaining(trades[k].before, f) = trades[k].quantity
            => /\ trades[k].before.orderMap[f] \notin Range(trades[k].before.free)
               /\ trades[k].before.orderMap[f] \in Range(BookAfter(k).free)

C34_StackSound ==
    /\ StackSound(CurrentBook)
    /\ \A k \in DOMAIN trades :
          /\ StackSound(trades[k].before)
          /\ ReleasedWereAllocated(k)
          /\ Len(BookAfter(k).free) <= Len(trades[k].before.free) + 2

C34_CancelReleases ==
    (lastOp'.op = "cancelOrder" /\ msg' = "Cancelled")
        => /\ orderMap_[lastOp'.id] \notin Range(freeIndices_)
           /\ freeIndices_' = Append(freeIndices_, orderMap_[lastOp'.id])

C34_PoolNeverMisused == []C34_StackSound /\ [][C34_CancelReleases]_vars

\* one call released two slots, and every slot of the pool is free again
C34_Witness ==
    /\ Len(trades) = 1
    /\ DOMAIN orderMap_ = {}
    /\ Capacity(pool_) = 2
    /\ Len(freeIndices_) = 2
    /\ trades[1].before.free = <<>>

(***************************************************************************)
(* C35: addOrder matches the incoming order against the other side first   *)
(* and posts only what remains: an incoming order that is filled whole on  *)
(* arrival is never in the index, never linked in a level and never in a   *)
(* pool slot, so it is filled also when the pool has no free slot.         *)
(***************************************************************************)
\* a resting order of bk on the other side, at a price that (price, side)
\* reaches, holds at least qty
WouldFillWhole(bk, price, qty, side) ==
    \E s \in LinkedSlots(bk) :
        /\ bk.pool[s].side # side
        /\ bk.pool[s].quantity >= qty
        /\ IF side = "Buy" THEN bk.pool[s].price <= price ELSE bk.pool[s].price >= price

\* the order of the last call is in the index of bk or linked in a level
Posted(bk) ==
    \/ lastOp.id \in DOMAIN bk.orderMap
    \/ \E s \in LinkedSlots(bk) : bk.pool[s].id = lastOp.id

C35_FilledOnArrivalNeverPosted ==
    /\ (lastOp.op = "addOrder" /\ trades # <<>> /\ lastOp.id \notin DOMAIN orderMap_)
          => \A k \in DOMAIN trades : ~Posted(trades[k].before)
    /\ (lastOp.op = "addOrder" /\ ~lastOp.known /\ ~lastOp.accepted)
          => ~WouldFillWhole(CurrentBook, lastOp.price, lastOp.qty, lastOp.side)

(***************************************************************************)
(* The trader threads of the stress test, each running on until it has     *)
(* made its calls.                                                         *)
(***************************************************************************)
\* the call into book_ returns, as the thread's own locals show it
TSCounts(t) ==
    /\ tpc[t].pc = "call"
    /\ tpc' = [tpc EXCEPT ![t].pc = "unlock",
                          ![t].i = IF tpc[t].call.op = "addOrder" THEN @ + 1 ELSE @]

\* the steps of trader thread t
traderThread(t) ==
    \/ \E c \in CallsOf(t) : TSCall(t, c)
    \/ SpinLockLock(t)
    \/ TSBegin(t)
    \/ TSCounts(t)
    \/ SpinLockUnlock(t)

\* every thread takes its next step again and again; a test_and_set that
\* finds the flag set changes nothing and is no step
SpecTSFair == SpecTS /\ \A t \in Threads : WF_tpc(traderThread(t))

(***************************************************************************)
(* C36: ThreadSafeOrderBook makes progress.  lock and unlock are paired    *)
(* around each call, so with threads that make a finite number of calls    *)
(* and are scheduled fairly, every thread waiting in lock() gets the lock, *)
(* every call returns, and at the end all threads are done with the lock   *)
(* free: no deadlock, no thread spins for ever.                            *)
(***************************************************************************)
\* every call was made and has returned, and the lock is free
AllDone ==
    /\ Busy = {}
    /\ ~flag
    /\ calls = MaxCalls

C36_Progress ==
    /\ \A t \in Threads : (tpc[t].pc = "lock") ~> (tpc[t].pc = "inside")
    /\ \A t \in Threads : (tpc[t].pc # "idle") ~> (tpc[t].pc = "idle")
    /\ <>[]AllDone

\* all calls have returned and every thread made one of them
C36_Witness ==
    /\ AllDone
    /\ \A t \in Threads : tpc[t].i >= 1

(***************************************************************************)
(* C37: a level's cached volume never underflows and never under-reports.  *)
(* In every reachable book, and in the book every iteration of the cross   *)
(* loop finds, totalVolume_ of each level is at least the sum of the       *)
(* remaining quantities of the orders linked in it, so the subtraction in  *)
(* remove never takes more than the level holds.                           *)
(***************************************************************************)
\* in bk no level reports less than its linked orders hold
VolumeCovers(bk) ==
    \A sp \in LevelsOf(bk) :
        /\ getVolume(LevelRec(bk, sp)) >= SumQuantity(bk.pool, QueueAt(bk, sp))
        /\ getVolume(LevelRec(bk, sp)) >= 0

C37_VolumeNeverUnderflows ==
    /\ VolumeCovers(CurrentBook)
    /\ \A k \in DOMAIN trades : VolumeCovers(trades[k].before)

\* a level that reported more than its only order held, after an earlier
\* fill in part, had that order filled whole and removed by this call
C37_Witness ==
    \E k \in DOMAIN trades :
        \E sp \in LevelsOf(trades[k].before) \ LevelsOf(CurrentBook) :
            /\ getVolume(LevelRec(trades[k].before, sp))
                  > SumQuantity(trades[k].before.pool, QueueAt(trades[k].before, sp))
            /\ Len(QueueAt(trades[k].before, sp)) = 1


(***************************************************************************)
(* The accesses a call makes, in program order: reads and writes of order  *)
(* records, releases of their slots, calls on levels, deletions of levels. *)
(***************************************************************************)
\* a read or write of a field of the record in slot order, at a source line
orderUse(order, line) == [acc |-> "use", on |-> order, line |-> line]

\* orderPool_.deallocate(order)
orderRelease(order, line) == [acc |-> "release", on |-> order, line |-> line]

\* a member call on the level of side sp[1] at price sp[2]
levelUse(sp, line) == [acc |-> "useLevel", on |-> sp, line |-> line]

\* delete level
levelDelete(sp, line) == [acc |-> "deleteLevel", on |-> sp, line |-> line]

\* cancelOrder, lines 126-132, entered when the level is empty after remove
cancelEraseAccesses(bk, order, sp) ==
    <<orderUse(order, 126),
      orderUse(order, IF bk.pool[order].side = "Buy" THEN 127 ELSE 130),
      levelDelete(sp, 132)>>

\* cancelOrder, lines 120-133, for an order that is in the index
cancelFoundAccesses(bk, order, sp) ==
    <<orderUse(order, 121), levelUse(sp, 122), orderUse(order, 122),
      orderRelease(order, 124), levelUse(sp, 125)>>
    \o IF isEmpty(levelAt(removeFrom(getLimitLevel(bk, sp[2], sp[1]),
                                     sp[2], sp[1], order),
                          sp[2], sp[1]))
       THEN cancelEraseAccesses(bk, order, sp)
       ELSE <<>>

\* cancelOrder(id)
cancelAccesses(bk, id) ==
    IF id \notin DOMAIN bk.orderMap
    THEN <<>>
    ELSE cancelFoundAccesses(bk, bk.orderMap[id],
                             <<bk.pool[bk.orderMap[id]].side,
                               bk.pool[bk.orderMap[id]].price>>)

\* match(), lines 87-97; bk is the book after the fill
cleanupBidAccesses(bk, bp, bidOrder) ==
    <<orderUse(bidOrder, 87)>>
    \o IF bk.pool[bidOrder].quantity = 0
       THEN <<levelUse(<<"Buy", bp>>, 88), orderUse(bidOrder, 88),
              orderUse(bidOrder, 89), orderRelease(bidOrder, 91),
              levelUse(<<"Buy", bp>>, 93)>>
            \o IF isEmpty(levelAt(removeFrom(bk, bp, "Buy", bidOrder), bp, "Buy"))
               THEN <<levelDelete(<<"Buy", bp>>, 94)>>
               ELSE <<>>
       ELSE <<>>

\* match(), lines 99-109; bk is the book after the bid's cleanup
cleanupAskAccesses(bk, ap, askOrder) ==
    <<orderUse(askOrder, 99)>>
    \o IF bk.pool[askOrder].quantity = 0
       THEN <<levelUse(<<"Sell", ap>>, 100), orderUse(askOrder, 100),
              orderUse(askOrder, 101), orderRelease(askOrder, 103),
              levelUse(<<"Sell", ap>>, 105)>>
            \o IF isEmpty(levelAt(removeFrom(bk, ap, "Sell", askOrder), ap, "Sell"))
               THEN <<levelDelete(<<"Sell", ap>>, 106)>>
               ELSE <<>>
       ELSE <<>>

\* match(), lines 73-85: the price test, the heads, the trade line, the fill
fillAccesses(bp, ap, bidOrder, askOrder) ==
    <<levelUse(<<"Buy", bp>>, 73), levelUse(<<"Sell", ap>>, 73),
      levelUse(<<"Buy", bp>>, 77), levelUse(<<"Sell", ap>>, 78),
      orderUse(bidOrder, 80), orderUse(askOrder, 80),
      levelUse(<<"Sell", ap>>, 82), orderUse(bidOrder, 82), orderUse(askOrder, 82),
      orderUse(bidOrder, 84), orderUse(askOrder, 85)>>

\* one iteration of the loop in match(), past its two exits
matchStepAccesses(bk, bp, ap, bidOrder, askOrder) ==
    fillAccesses(bp, ap, bidOrder, askOrder)
    \o cleanupBidAccesses(
           fill(bk, bidOrder, askOrder,
                Min(bk.pool[bidOrder].quantity, bk.pool[askOrder].quantity)),
           bp, bidOrder)
    \o cleanupAskAccesses(
           cleanupBid(
               fill(bk, bidOrder, askOrder,
                    Min(bk.pool[bidOrder].quantity, bk.pool[askOrder].quantity)),
               bp, bidOrder),
           ap, askOrder)

\* match(): the cross loop
RECURSIVE matchAccesses(_)
matchAccesses(bk) ==
    IF DOMAIN bk.bids = {} \/ DOMAIN bk.asks = {}
    THEN <<>>
    ELSE IF spreadOpen(bk.bids[BidsBegin(bk.bids)], bk.asks[AsksBegin(bk.asks)])
         THEN <<levelUse(<<"Buy", BidsBegin(bk.bids)>>, 73),
                levelUse(<<"Sell", AsksBegin(bk.asks)>>, 73)>>
         ELSE matchStepAccesses(bk, BidsBegin(bk.bids), AsksBegin(bk.asks),
                                getHead(bk.bids[BidsBegin(bk.bids)]),
                                getHead(bk.asks[AsksBegin(bk.asks)]))
              \o matchAccesses(matchStep(bk, BidsBegin(bk.bids), AsksBegin(bk.asks),
                                         getHead(bk.bids[BidsBegin(bk.bids)]),
                                         getHead(bk.asks[AsksBegin(bk.asks)])))

\* addOrder, lines 19-28, for an order that got its slot
acceptAccesses(bk, order, id, price, side) ==
    <<orderUse(order, 19), levelUse(<<side, price>>, 26), orderUse(order, 26)>>
    \o matchAccesses(appendTo(getLimitLevel(indexPut(bk, id, order), price, side),
                              price, side, order))

\* addOrder, from the allocation on
addAllocatedAccesses(a, id, price, side) ==
    IF a.obj = nullptr
    THEN <<>>
    ELSE acceptAccesses(a.book, a.obj, id, price, side)

\* addOrder(id, price, qty, side)
addAccesses(bk, id, price, qty, side) ==
    IF isDuplicate(bk, id)
    THEN <<>>
    ELSE addAllocatedAccesses(allocate(bk, id, price, qty, side), id, price, side)

(***************************************************************************)
(* C38: no use after release.  In addOrder, match and cancelOrder no field *)
(* of an order record is read or written after that record's slot has been *)
(* pushed back onto the pool's free stack by deallocate, and no LimitLevel *)
(* is accessed after it has been deleted.                                  *)
(***************************************************************************)
\* in the sequence of accesses no record is used after its release and no
\* level is used after its deletion
NoUseAfterRelease(accesses) ==
    \A i, j \in DOMAIN accesses :
        i < j =>
           /\ ~ (/\ accesses[i].acc = "release"
                 /\ accesses[j].acc = "use"
                 /\ accesses[i].on = accesses[j].on)
           /\ ~ (/\ accesses[i].acc = "deleteLevel"
                 /\ accesses[j].acc = "useLevel"
                 /\ accesses[i].on = accesses[j].on)

\* the accesses of the call this step makes, from the book it starts with
CallAccesses ==
    IF lastOp'.op = "addOrder"
    THEN addAccesses(CurrentBook, lastOp'.id, lastOp'.price, lastOp'.qty, lastOp'.side)
    ELSE IF lastOp'.op = "cancelOrder"
         THEN cancelAccesses(CurrentBook, lastOp'.id)
         ELSE <<>>

C38_NoUseAfterRelease == [][NoUseAfterRelease(CallAccesses)]_vars

\* the same for the calls of addOrder alone, match included
C38_AddOrderNoUseAfterRelease ==
    [][lastOp'.op = "addOrder" => NoUseAfterRelease(CallAccesses)]_vars

\* the same for the calls of cancelOrder that leave orders in the level
C38_CancelKeepsLevelNoUseAfterRelease ==
    [][(/\ lastOp'.op = "cancelOrder"
        /\ lastOp'.known
        /\ <<cancelled'[lastOp'.id].side, cancelled'[lastOp'.id].price>>
              \in LevelsOf([bids |-> bids_', asks |-> asks_']))
       => NoUseAfterRelease(CallAccesses)]_vars

=============================================================================
